---- MODULE Spec2Model ----
(***************************************************************************)
(* Model of the C++ back-testing engine (Engine, ExecutionEngine,          *)
(* RiskManager and the decision logic of the three strategies).            *)
(*                                                                         *)
(* Numbers.  The program computes in double; the model computes in exact   *)
(* rationals [n, d] (d > 0, lowest terms), so rounding is not modelled.    *)
(* The comparisons against 1e-9 in execute_trade are kept exactly.         *)
(*                                                                         *)
(* Strategies.  The rolling-window indicators are not computed in the      *)
(* engine specification: each on_bar receives, as an input of the bar,     *)
(* whether its indicators are ready and the outcome of the comparisons     *)
(* its code makes on them; the decision logic on those outcomes is the     *)
(* code's.                                                                 *)
(***************************************************************************)
EXTENDS Integers, Sequences, FiniteSets, TLC

VARIABLES
    pc,                        \* position of Engine::run in the loop body
    bar,                       \* the bar the loop is processing
    bar_index,                 \* number of bars taken from the input so far
    signal,                    \* local variable `signal` of Engine::run
    execution_engine_,         \* Engine::execution_engine_
    risk_manager_,             \* Engine::risk_manager_
    regime_strategy_,          \* Engine::regime_strategy_
    momentum_strategy_,        \* Engine::momentum_strategy_
    mean_reversion_strategy_,  \* Engine::mean_reversion_strategy_
    hist,                      \* history of the run (observation only)
    instance_                  \* the object a stand-alone specification drives,
                               \* <<>> in a specification of the engine

vars == <<pc, bar, bar_index, signal, execution_engine_, risk_manager_,
          regime_strategy_, momentum_strategy_, mean_reversion_strategy_, hist,
          instance_>>

----------------------------------------------------------------------------
(* Bounds of the model *)

MaxBars == 5          \* bars of an engine run
MaxPrice == 2         \* prices are 1..MaxPrice
MaxDayBars == 6       \* bars of a run of the day-limit scenario
MaxTradesCfg == 2     \* max_trades_per_day is 1..MaxTradesCfg there
MaxCooldownCfg == 2   \* cooldown_bars is 0 or MaxCooldownCfg there
MaxCalls == 5         \* calls made on a stand-alone ExecutionEngine
MaxStopBars == 3      \* bars of a run of the stop scenario
MaxWarmBars == 301    \* bars of a run with the indicators warming up
MaxConstBars == 301   \* bars of a run on a constant-price input
MaxCapacity == 3      \* a stand-alone CircularBuffer has capacity 1..MaxCapacity
MaxPushes == 5        \* pushes made on it
MaxPeriod == 3        \* a stand-alone indicator has period 1..MaxPeriod
MaxUpdates == 5       \* updates made on it
MaxLines == 3         \* lines of a file read by load_csv
MaxMomentumBars == 103  \* bars fed to a stand-alone MomentumStrategy
MaxMeanReversionBars == 102  \* and to a stand-alone MeanReversionStrategy
MaxRegimeBars == 302  \* and to a stand-alone RegimeStrategy
MaxReturnBars == 5  \* bars fed to the two strategies with volatility windows
MaxRerunBars == 3     \* bars of the input that run() is called on twice

(* Program and library constants *)

SecondsPerDay == 86400     \* std::localtime
BarSeconds == 14400        \* cadence of the input bars (4 hours)
InitialCapital == 100000
MOMENTUM_PERIOD == 100
RANKING_PERIOD == 100
BB_PERIOD == 100
RSI_PERIOD == 20
VOL_SHORT == 50
VOL_LONG == 200
TREND_SMA == 300

----------------------------------------------------------------------------
(* Exact rational arithmetic for the program's doubles *)

Abs(x) == IF x < 0 THEN -x ELSE x

RECURSIVE GCD(_, _)
GCD(a, b) == IF b = 0 THEN a ELSE GCD(b, a % b)

Rat(n, d) ==
    LET g == GCD(Abs(n), d)
    IN  [n |-> n \div g, d |-> d \div g]

RInt(k) == [n |-> k, d |-> 1]
Zero == RInt(0)

RNeg(a) == [n |-> -a.n, d |-> a.d]
RAbs(a) == [n |-> Abs(a.n), d |-> a.d]

RAdd(a, b) ==
    LET g == GCD(a.d, b.d)
    IN  Rat(a.n * (b.d \div g) + b.n * (a.d \div g), (a.d \div g) * b.d)

RSub(a, b) == RAdd(a, RNeg(b))

RMul(a, b) ==
    LET g1 == GCD(Abs(a.n), b.d)
        g2 == GCD(Abs(b.n), a.d)
    IN  Rat((a.n \div g1) * (b.n \div g2), (a.d \div g2) * (b.d \div g1))

RInv(a) == IF a.n < 0 THEN [n |-> -a.d, d |-> -a.n] ELSE [n |-> a.d, d |-> a.n]
RDiv(a, b) == RMul(a, RInv(b))

(* an/ad < bn/bd for non-negative fractions, by continued fractions (no    *)
(* product, so no overflow)                                                *)
RECURSIVE FracLt(_, _, _, _)
FracLt(an, ad, bn, bd) ==
    LET qa == an \div ad
        qb == bn \div bd
        ra == an % ad
        rb == bn % bd
    IN  IF qa # qb THEN qa < qb
        ELSE IF rb = 0 THEN FALSE
        ELSE IF ra = 0 THEN TRUE
        ELSE FracLt(bd, rb, ad, ra)

RLt(a, b) ==
    IF a.n < 0
    THEN IF b.n < 0 THEN FracLt(-b.n, b.d, -a.n, a.d) ELSE TRUE
    ELSE IF b.n < 0 THEN FALSE ELSE FracLt(a.n, a.d, b.n, b.d)

RGt(a, b) == RLt(b, a)
RMax(a, b) == IF RLt(a, b) THEN b ELSE a
RMin(a, b) == IF RLt(b, a) THEN b ELSE a

(* The literal 1e-9 of execute_trade *)
Epsilon == [n |-> 1, d |-> 1000000000]

----------------------------------------------------------------------------
(* ExecutionEngine *)

NewExecutionEngine(initial_capital) ==
    [capital_ |-> initial_capital, cash_ |-> initial_capital,
     position_ |-> Zero, position_side_ |-> 0,
     last_entry_time_ |-> 0, last_entry_price_ |-> Zero,
     pending_order_side_ |-> 0, pending_order_qty_ |-> Zero,
     trades_ |-> <<>>]

get_equity(e, current_price) == RAdd(e.cash_, RMul(e.position_, current_price))

is_invested(e) == e.position_ # Zero

(* faulty variant: the pnl of a long position for either side *)
NewTrade_long_pnl(e, time, qty, price) ==
    [entry_time |-> e.last_entry_time_, exit_time |-> time,
     entry_price |-> e.last_entry_price_, exit_price |-> price,
     side |-> e.position_side_,
     pnl |-> RMul(RSub(price, e.last_entry_price_), qty)]

(* faulty variant: the entry stamped with the time of the exit *)
NewTrade_exit_stamp(e, time, qty, price) ==
    [entry_time |-> time, exit_time |-> time,
     entry_price |-> e.last_entry_price_, exit_price |-> price,
     side |-> e.position_side_,
     pnl |-> IF e.position_side_ = 1
             THEN RMul(RSub(price, e.last_entry_price_), qty)
             ELSE RMul(RSub(e.last_entry_price_, price), qty)]

NewTrade(e, time, qty, price) ==
    [entry_time |-> e.last_entry_time_, exit_time |-> time,
     entry_price |-> e.last_entry_price_, exit_price |-> price,
     side |-> e.position_side_,
     pnl |-> IF e.position_side_ = 1
             THEN RMul(RSub(price, e.last_entry_price_), qty)
             ELSE RMul(RSub(e.last_entry_price_, price), qty)]

(* faulty variant: the ledger keeps only the trade just closed *)
execute_trade_overwrite(e, time, side, qty, price) ==
    LET cost == RMul(qty, price)
        fee == Zero
        e1 == IF e.position_ = Zero /\ side # 0
              THEN [e EXCEPT !.last_entry_time_ = time,
                             !.last_entry_price_ = price]
              ELSE e
        e2 == IF side = 1
              THEN [e1 EXCEPT !.cash_ = RSub(@, RAdd(cost, fee)),
                              !.position_ = RAdd(@, qty)]
              ELSE [e1 EXCEPT !.cash_ = RAdd(@, RSub(cost, fee)),
                              !.position_ = RSub(@, qty)]
        e3 == IF RLt(RAbs(e2.position_), Epsilon) /\ e2.position_side_ # 0
              THEN [e2 EXCEPT !.trades_ = <<NewTrade(e2, time, qty, price)>>]
              ELSE e2
    IN  [e3 EXCEPT !.position_side_ =
            IF RGt(RAbs(e3.position_), Epsilon)
            THEN (IF RGt(e3.position_, Zero) THEN 1 ELSE -1)
            ELSE 0]

execute_trade(e, time, side, qty, price) ==
    LET cost == RMul(qty, price)
        fee == Zero
        e1 == IF e.position_ = Zero /\ side # 0
              THEN [e EXCEPT !.last_entry_time_ = time,
                             !.last_entry_price_ = price]
              ELSE e
        e2 == IF side = 1
              THEN [e1 EXCEPT !.cash_ = RSub(@, RAdd(cost, fee)),
                              !.position_ = RAdd(@, qty)]
              ELSE [e1 EXCEPT !.cash_ = RAdd(@, RSub(cost, fee)),
                              !.position_ = RSub(@, qty)]
        e3 == IF RLt(RAbs(e2.position_), Epsilon) /\ e2.position_side_ # 0
              THEN [e2 EXCEPT !.trades_ = Append(@, NewTrade(e2, time, qty, price))]
              ELSE e2
    IN  [e3 EXCEPT !.position_side_ =
            IF RGt(RAbs(e3.position_), Epsilon)
            THEN (IF RGt(e3.position_, Zero) THEN 1 ELSE -1)
            ELSE 0]

(* faulty variant: the order executes at once, at the close of the current bar *)
submit_order_at_once(e, side, quantity) ==
    execute_trade(e, bar.timestamp, side, quantity, RInt(bar.close))

submit_order(e, side, quantity) ==
    [e EXCEPT !.pending_order_side_ = side, !.pending_order_qty_ = quantity]

(* faulty variant: half of the position is closed *)
close_position_half(e) ==
    IF e.position_ # Zero
    THEN submit_order(e, -e.position_side_, RMul(RAbs(e.position_), Rat(1, 2)))
    ELSE e

close_position(e) ==
    IF e.position_ # Zero
    THEN submit_order(e, -e.position_side_, RAbs(e.position_))
    ELSE e

(* faulty variant: the fill uses the close of the bar *)
on_bar_open_at_close(e, b) ==
    IF e.pending_order_side_ # 0
    THEN [execute_trade(e, b.timestamp, e.pending_order_side_,
                        e.pending_order_qty_, RInt(b.close))
            EXCEPT !.pending_order_side_ = 0, !.pending_order_qty_ = Zero]
    ELSE e

(* faulty variant: the order stays pending after its fill *)
on_bar_open_keep(e, b) ==
    IF e.pending_order_side_ # 0
    THEN execute_trade(e, b.timestamp, e.pending_order_side_,
                       e.pending_order_qty_, RInt(b.open))
    ELSE e

on_bar_open(e, b) ==
    IF e.pending_order_side_ # 0
    THEN [execute_trade(e, b.timestamp, e.pending_order_side_,
                        e.pending_order_qty_, RInt(b.open))
            EXCEPT !.pending_order_side_ = 0, !.pending_order_qty_ = Zero]
    ELSE e

----------------------------------------------------------------------------
(* RiskManager *)

NewRiskManager(config) ==
    [config_ |-> config, side_ |-> 0, entry_price_ |-> Zero,
     stop_loss_ |-> Zero, highest_price_ |-> Zero, lowest_price_ |-> Zero,
     atr_at_entry_ |-> Zero, trades_today_ |-> 0, last_trade_day_ |-> 0,
     cooldown_counter_ |-> 0]

(* std::localtime, read as UTC: the calendar day of a time in seconds *)
CalendarDay(t) == t \div SecondsPerDay

is_new_day(r, current_time) ==
    CalendarDay(current_time) # CalendarDay(r.last_trade_day_)

(* can_enter changes the manager and returns a value *)
can_enter_state(r, current_time) ==
    IF is_new_day(r, current_time)
    THEN [r EXCEPT !.trades_today_ = 0, !.last_trade_day_ = current_time]
    ELSE r

(* faulty variant: the limit compared with > *)
can_enter_off_by_one(r, current_time) ==
    LET r1 == can_enter_state(r, current_time)
    IN  IF r1.trades_today_ > r1.config_.max_trades_per_day THEN FALSE
        ELSE IF r1.cooldown_counter_ > 0 THEN FALSE
        ELSE TRUE

can_enter(r, current_time) ==
    LET r1 == can_enter_state(r, current_time)
    IN  IF r1.trades_today_ >= r1.config_.max_trades_per_day THEN FALSE
        ELSE IF r1.cooldown_counter_ > 0 THEN FALSE
        ELSE TRUE

StopDistance(r) == RMul(r.atr_at_entry_, r.config_.atr_stop_multiplier)

(* faulty variant: the side of the entry is not recorded *)
on_entry_no_side(r, price, atr_value, side) ==
    LET r1 == [r EXCEPT !.entry_price_ = price, !.highest_price_ = price,
                        !.lowest_price_ = price, !.atr_at_entry_ = atr_value]
    IN  [r1 EXCEPT !.stop_loss_ = IF side = 1
                                  THEN RSub(price, StopDistance(r1))
                                  ELSE RAdd(price, StopDistance(r1)),
                   !.trades_today_ = @ + 1]

on_entry(r, price, atr_value, side) ==
    LET r1 == [r EXCEPT !.entry_price_ = price, !.highest_price_ = price,
                        !.lowest_price_ = price, !.atr_at_entry_ = atr_value,
                        !.side_ = side]
    IN  [r1 EXCEPT !.stop_loss_ = IF side = 1
                                  THEN RSub(price, StopDistance(r1))
                                  ELSE RAdd(price, StopDistance(r1)),
                   !.trades_today_ = @ + 1]

(* faulty variant: a bar that touches the stop triggers it *)
check_exit_inclusive(r, b) ==
    IF r.side_ = 0 THEN FALSE
    ELSE IF r.side_ = 1 /\ ~RGt(RInt(b.low), r.stop_loss_) THEN TRUE
    ELSE IF r.side_ = -1 /\ ~RLt(RInt(b.high), r.stop_loss_) THEN TRUE
    ELSE FALSE

check_exit(r, b) ==
    IF r.side_ = 0 THEN FALSE
    ELSE IF r.side_ = 1 /\ RLt(RInt(b.low), r.stop_loss_) THEN TRUE
    ELSE IF r.side_ = -1 /\ RGt(RInt(b.high), r.stop_loss_) THEN TRUE
    ELSE FALSE

(* faulty variant: the stop follows every bar, not only a new extreme *)
check_exit_state_every_bar(r, b) ==
    IF r.side_ = 0 \/ check_exit(r, b) THEN r
    ELSE IF r.side_ = 1
    THEN [r EXCEPT !.highest_price_ = RInt(b.high),
                   !.stop_loss_ = RSub(RInt(b.high), StopDistance(r))]
    ELSE [r EXCEPT !.lowest_price_ = RInt(b.low),
                   !.stop_loss_ = RAdd(RInt(b.low), StopDistance(r))]

check_exit_state(r, b) ==
    IF r.side_ = 0 \/ check_exit(r, b) THEN r
    ELSE IF r.side_ = 1
    THEN IF RGt(RInt(b.high), r.highest_price_)
         THEN [r EXCEPT !.highest_price_ = RInt(b.high),
                        !.stop_loss_ = RMax(@, RSub(RInt(b.high), StopDistance(r)))]
         ELSE r
    ELSE IF RLt(RInt(b.low), r.lowest_price_)
         THEN [r EXCEPT !.lowest_price_ = RInt(b.low),
                        !.stop_loss_ = RMin(@, RAdd(RInt(b.low), StopDistance(r)))]
         ELSE r

(* faulty variant: a winning exit leaves the side as it is *)
on_exit_keep_side(r, is_win) ==
    [r EXCEPT !.side_ = IF is_win THEN @ ELSE 0,
              !.cooldown_counter_ = IF ~is_win THEN r.config_.cooldown_bars ELSE @]

on_exit(r, is_win) ==
    [r EXCEPT !.side_ = 0,
              !.cooldown_counter_ = IF ~is_win THEN r.config_.cooldown_bars ELSE @]

(* faulty variant: the counter is decremented also at 0 *)
update_cooldown_unguarded(r) ==
    [r EXCEPT !.cooldown_counter_ = @ - 1]

update_cooldown(r) ==
    IF r.cooldown_counter_ > 0
    THEN [r EXCEPT !.cooldown_counter_ = @ - 1]
    ELSE r

----------------------------------------------------------------------------
(* Strategies: the decision logic of on_bar on the outcome of the          *)
(* indicator comparisons of the bar (the observation o)                    *)

Regimes == {"UNDEFINED", "LV_TREND", "HV_TREND", "LV_RANGE", "HV_RANGE"}

NewRegimeStrategy == [current_regime_ |-> "UNDEFINED"]

RegimeObservations ==
    [ready : BOOLEAN, low_vol : BOOLEAN, trending : BOOLEAN]

RegimeStrategy_on_bar(s, o) ==
    IF ~o.ready THEN s
    ELSE [s EXCEPT !.current_regime_ =
              IF o.low_vol /\ o.trending THEN "LV_TREND"
              ELSE IF ~o.low_vol /\ o.trending THEN "HV_TREND"
              ELSE IF o.low_vol /\ ~o.trending THEN "LV_RANGE"
              ELSE "HV_RANGE"]

NewMomentumStrategy == [current_signal_ |-> 0]

(* z > 1.5, z < -1.5 and |z| < 0.3 exclude each other *)
MomentumObservations ==
    {o \in [ready : BOOLEAN,
            long_entry : BOOLEAN, short_entry : BOOLEAN,
            momentum_weak : BOOLEAN] :
        /\ ~(o.long_entry /\ o.short_entry)
        /\ o.momentum_weak => ~(o.long_entry \/ o.short_entry)}

MomentumStrategy_on_bar(s, o) ==
    IF ~o.ready THEN s
    ELSE [s EXCEPT !.current_signal_ =
              IF o.long_entry THEN 1
              ELSE IF o.short_entry THEN -1
              ELSE IF o.momentum_weak THEN 0
              ELSE s.current_signal_]

NewMeanReversionStrategy == [current_signal_ |-> 0]

(* bb_pos < -0.8, bb_pos > 0.8, bb_pos > 0.1 and bb_pos < -0.1 are         *)
(* comparisons of one number                                               *)
MeanReversionObservations ==
    {o \in [ready : BOOLEAN,
            long_entry : BOOLEAN, short_entry : BOOLEAN,
            exit_long : BOOLEAN, exit_short : BOOLEAN] :
        /\ ~(o.exit_long /\ o.exit_short)
        /\ o.long_entry => o.exit_short
        /\ o.short_entry => o.exit_long}

MeanReversionStrategy_on_bar(s, o) ==
    IF ~o.ready THEN s
    ELSE [s EXCEPT !.current_signal_ =
              IF o.long_entry THEN 1
              ELSE IF o.short_entry THEN -1
              ELSE IF s.current_signal_ = 1 /\ o.exit_long THEN 0
              ELSE IF s.current_signal_ = -1 /\ o.exit_short THEN 0
              ELSE s.current_signal_]

(* faulty variant: only LV_RANGE is told from the trends, so that          *)
(* HV_RANGE gets the momentum signal                                       *)
DispatchSignal_else_momentum(regime, momentum, mean_reversion) ==
    IF regime = "LV_RANGE" THEN mean_reversion.current_signal_
    ELSE IF regime = "UNDEFINED" THEN 0
    ELSE momentum.current_signal_

(* Allocation logic of Engine::run *)
DispatchSignal(regime, momentum, mean_reversion) ==
    IF regime = "LV_TREND" \/ regime = "HV_TREND" THEN momentum.current_signal_
    ELSE IF regime = "LV_RANGE" THEN mean_reversion.current_signal_
    ELSE 0

----------------------------------------------------------------------------
(* Indicators: when each one is ready. A CircularBuffer is the number of   *)
(* values it holds; unready_ counts the held values that an indicator      *)
(* returned from update while it was not ready. An indicator that is       *)
(* ready stays ready, so the values counted by unready_ are the oldest     *)
(* ones and are overwritten first.                                         *)

NewCircularBuffer(capacity) ==
    [capacity_ |-> capacity, count_ |-> 0, unready_ |-> 0]

push(buffer, ready) ==
    LET kept == IF buffer.count_ = buffer.capacity_ /\ buffer.unready_ > 0
                THEN buffer.unready_ - 1
                ELSE buffer.unready_
    IN  [buffer EXCEPT
            !.count_ = IF @ < buffer.capacity_ THEN @ + 1 ELSE @,
            !.unready_ = kept + (IF ready THEN 0 ELSE 1)]

size(buffer) == buffer.count_

is_full(buffer) == buffer.count_ = buffer.capacity_

NewSimpleMovingAverage(period) ==
    [period_ |-> period, buffer_ |-> NewCircularBuffer(period)]

SimpleMovingAverage_update(i) == [i EXCEPT !.buffer_ = push(@, TRUE)]

SimpleMovingAverage_is_ready(i) == is_full(i.buffer_)

NewExponentialMovingAverage(period) ==
    [period_ |-> period, initialized_ |-> FALSE]

ExponentialMovingAverage_update(i) == [i EXCEPT !.initialized_ = TRUE]

ExponentialMovingAverage_is_ready(i) == i.initialized_

(* prev_price_ starts as NaN: the first update only stores the price *)
NewRSI(period) ==
    [period_ |-> period, prev_price_isnan |-> TRUE, initialized_count_ |-> 0]

RSI_update(i) ==
    IF i.prev_price_isnan THEN [i EXCEPT !.prev_price_isnan = FALSE]
    ELSE IF i.initialized_count_ < i.period_
         THEN [i EXCEPT !.initialized_count_ = @ + 1]
         ELSE i

RSI_is_ready(i) == i.initialized_count_ >= i.period_

NewBollingerBands(period) ==
    [sma_ |-> NewSimpleMovingAverage(period),
     buffer_ |-> NewCircularBuffer(period)]

BollingerBands_update(i) ==
    [i EXCEPT !.sma_ = SimpleMovingAverage_update(@),
              !.buffer_ = push(@, TRUE)]

BollingerBands_is_ready(i) == SimpleMovingAverage_is_ready(i.sma_)

NewRateOfChange(period) ==
    [period_ |-> period, buffer_ |-> NewCircularBuffer(period + 1)]

RateOfChange_update(i) == [i EXCEPT !.buffer_ = push(@, TRUE)]

(* faulty variant: ready on period_ values *)
RateOfChange_is_ready_at_period(i) == size(i.buffer_) >= i.period_

RateOfChange_is_ready(i) == size(i.buffer_) > i.period_

NewRollingStats(period) ==
    [period_ |-> period, buffer_ |-> NewCircularBuffer(period)]

RollingStats_update(i, ready) == [i EXCEPT !.buffer_ = push(@, ready)]

RollingStats_is_ready(i) == is_full(i.buffer_)

(* The strategies with their indicators: the part of on_bar that updates   *)
(* the indicators, and the test that lets on_bar go on to its decision     *)

WarmRegimeStrategy ==
    [current_regime_ |-> "UNDEFINED",
     vol_short_ |-> NewRollingStats(VOL_SHORT),
     vol_long_ |-> NewRollingStats(VOL_LONG),
     sma_trend_ |-> NewSimpleMovingAverage(TREND_SMA),
     last_close_ |-> 0]

RegimeStrategy_update(s, b) ==
    [s EXCEPT
        !.vol_short_ = IF s.last_close_ > 0 THEN RollingStats_update(@, TRUE)
                       ELSE @,
        !.vol_long_ = IF s.last_close_ > 0 THEN RollingStats_update(@, TRUE)
                      ELSE @,
        !.last_close_ = b.close,
        !.sma_trend_ = SimpleMovingAverage_update(@)]

(* faulty variant: the two tests joined by && *)
RegimeStrategy_ready_either(s) ==
    ~(~RollingStats_is_ready(s.vol_long_)
      /\ ~SimpleMovingAverage_is_ready(s.sma_trend_))

RegimeStrategy_ready(s) ==
    ~(~RollingStats_is_ready(s.vol_long_)
      \/ ~SimpleMovingAverage_is_ready(s.sma_trend_))

WarmMomentumStrategy ==
    [current_signal_ |-> 0,
     roc_ |-> NewRateOfChange(MOMENTUM_PERIOD),
     roc_zscore_ |-> NewRollingStats(RANKING_PERIOD),
     ema_12_ |-> NewExponentialMovingAverage(12),
     ema_26_ |-> NewExponentialMovingAverage(26),
     vol_avg_ |-> NewSimpleMovingAverage(20),
     rsi_ |-> NewRSI(14)]

(* mom = roc_.update(bar.close); roc_zscore_.update(mom): update returns   *)
(* 0.0 until roc_ holds more than period_ values                           *)
MomentumStrategy_update(s) ==
    LET roc == RateOfChange_update(s.roc_)
    IN  [s EXCEPT
            !.roc_ = roc,
            !.roc_zscore_ = RollingStats_update(@, RateOfChange_is_ready(roc)),
            !.ema_12_ = ExponentialMovingAverage_update(@),
            !.ema_26_ = ExponentialMovingAverage_update(@),
            !.vol_avg_ = SimpleMovingAverage_update(@),
            !.rsi_ = RSI_update(@)]

MomentumStrategy_ready(s) ==
    ~(\/ ~RollingStats_is_ready(s.roc_zscore_)
      \/ ~ExponentialMovingAverage_is_ready(s.ema_26_)
      \/ ~SimpleMovingAverage_is_ready(s.vol_avg_)
      \/ ~RSI_is_ready(s.rsi_))

(* A z-score window that holds only the 0.0 of a roc_ that was not ready   *)
(* has std_dev_ = 0 and zscore_ = 0.0: no entry, and |z| < 0.3             *)
MomentumStrategy_observations(s) ==
    {o \in MomentumObservations :
        /\ o.ready = MomentumStrategy_ready(s)
        /\ (o.ready /\ s.roc_zscore_.buffer_.unready_
                           = size(s.roc_zscore_.buffer_))
               => ~o.long_entry /\ ~o.short_entry /\ o.momentum_weak}

WarmMeanReversionStrategy ==
    [current_signal_ |-> 0,
     bb_ |-> NewBollingerBands(BB_PERIOD),
     rsi_ |-> NewRSI(RSI_PERIOD),
     vol_20_ |-> NewRollingStats(20),
     vol_60_ |-> NewRollingStats(60),
     last_close_ |-> 0]

MeanReversionStrategy_update(s, b) ==
    [s EXCEPT
        !.bb_ = BollingerBands_update(@),
        !.rsi_ = RSI_update(@),
        !.vol_20_ = IF s.last_close_ > 0 THEN RollingStats_update(@, TRUE)
                    ELSE @,
        !.vol_60_ = IF s.last_close_ > 0 THEN RollingStats_update(@, TRUE)
                    ELSE @,
        !.last_close_ = b.close]

MeanReversionStrategy_ready(s) ==
    ~(\/ ~BollingerBands_is_ready(s.bb_)
      \/ ~RSI_is_ready(s.rsi_)
      \/ ~RollingStats_is_ready(s.vol_60_))

(* The regime detector's indicators with the values they hold. buffer_ is  *)
(* the window with the latest value first; variance_ is std_dev_ squared,  *)
(* and two std_dev_ compare as their squares do.                           *)

TREND_THRESHOLD == Rat(5, 1000)

NewCircularBufferOf(capacity) ==
    [capacity_ |-> capacity, count_ |-> 0, unready_ |-> 0, buffer_ |-> <<>>]

push_value(buffer, value) ==
    [push(buffer, TRUE) EXCEPT
        !.buffer_ = IF Len(@) < buffer.capacity_ THEN <<value>> \o @
                    ELSE <<value>> \o SubSeq(@, 1, buffer.capacity_ - 1)]

get(buffer, index) == buffer.buffer_[index + 1]

NewSimpleMovingAverageOf(period) ==
    [period_ |-> period, sum_ |-> Zero,
     buffer_ |-> NewCircularBufferOf(period), current_value_ |-> Zero]

(* faulty variant: the oldest value is not taken out of the sum *)
SimpleMovingAverage_update_value_keep(i, value) ==
    LET buffer == push_value(i.buffer_, value)
        sum == RAdd(i.sum_, value)
    IN  [i EXCEPT !.buffer_ = buffer,
                  !.sum_ = sum,
                  !.current_value_ = RDiv(sum, RInt(size(buffer)))]

SimpleMovingAverage_update_value(i, value) ==
    LET kept == IF is_full(i.buffer_)
                THEN RSub(i.sum_, get(i.buffer_, i.period_ - 1))
                ELSE i.sum_
        buffer == push_value(i.buffer_, value)
        sum == RAdd(kept, value)
    IN  [i EXCEPT !.buffer_ = buffer,
                  !.sum_ = sum,
                  !.current_value_ = RDiv(sum, RInt(size(buffer)))]

NewRollingStatsOf(period) ==
    [period_ |-> period, buffer_ |-> NewCircularBufferOf(period),
     sum_ |-> Zero, sum_sq_ |-> Zero, mean_ |-> Zero, variance_ |-> Zero]

RollingStats_update_value(i, value) ==
    LET full == is_full(i.buffer_)
        old_val == IF full THEN get(i.buffer_, i.period_ - 1) ELSE Zero
        buffer == push_value(i.buffer_, value)
        sum == RAdd(RSub(i.sum_, old_val), value)
        sum_sq == RAdd(RSub(i.sum_sq_, RMul(old_val, old_val)),
                       RMul(value, value))
        n == RInt(size(buffer))
        mean == RDiv(sum, n)
        variance == RSub(RDiv(sum_sq, n), RMul(mean, mean))
    IN  [i EXCEPT !.buffer_ = buffer,
                  !.sum_ = sum,
                  !.sum_sq_ = sum_sq,
                  !.mean_ = mean,
                  !.variance_ = IF RLt(variance, Zero) THEN Zero
                                ELSE variance]

(* std::log(bar.close / last_close_): 0 for equal closes, which is the     *)
(* case of this model's inputs; else the first term of its series          *)
LogReturn(close, last_close) ==
    IF close = last_close THEN Zero
    ELSE Rat(2 * (close - last_close), close + last_close)

ValueRegimeStrategy ==
    [current_regime_ |-> "UNDEFINED",
     vol_short_ |-> NewRollingStatsOf(VOL_SHORT),
     vol_long_ |-> NewRollingStatsOf(VOL_LONG),
     sma_trend_ |-> NewSimpleMovingAverageOf(TREND_SMA),
     last_close_ |-> 0]

RegimeStrategy_update_value(s, b) ==
    LET log_ret == LogReturn(b.close, s.last_close_)
    IN  [s EXCEPT
            !.vol_short_ = IF s.last_close_ > 0
                           THEN RollingStats_update_value(@, log_ret)
                           ELSE @,
            !.vol_long_ = IF s.last_close_ > 0
                          THEN RollingStats_update_value(@, log_ret)
                          ELSE @,
            !.last_close_ = b.close,
            !.sma_trend_ = SimpleMovingAverage_update_value(@, RInt(b.close))]

(* faulty variant: low_vol by <= *)
RegimeStrategy_observation_le(s, b) ==
    LET sma_val == s.sma_trend_.current_value_
        trend_strength == RDiv(RAbs(RSub(RInt(b.close), sma_val)), sma_val)
    IN  [ready |-> RegimeStrategy_ready(s),
         low_vol |-> ~RLt(s.vol_long_.variance_, s.vol_short_.variance_),
         trending |-> RGt(trend_strength, TREND_THRESHOLD)]

(* low_vol = vol_short_.std_dev() < vol_long_.std_dev();                   *)
(* trending = abs(bar.close - sma_val) / sma_val > TREND_THRESHOLD         *)
RegimeStrategy_observation(s, b) ==
    LET sma_val == s.sma_trend_.current_value_
        trend_strength == RDiv(RAbs(RSub(RInt(b.close), sma_val)), sma_val)
    IN  [ready |-> RegimeStrategy_ready(s),
         low_vol |-> RLt(s.vol_short_.variance_, s.vol_long_.variance_),
         trending |-> RGt(trend_strength, TREND_THRESHOLD)]

----------------------------------------------------------------------------
(* The input: bars with 0 < low <= open, close <= high and timestamps      *)
(* strictly increasing at a fixed cadence                                  *)

Prices == 1..MaxPrice

BarShapes ==
    {b \in [open : Prices, high : Prices, low : Prices, close : Prices,
            volume : {1}] :
        /\ b.low <= b.open /\ b.low <= b.close
        /\ b.high >= b.open /\ b.high >= b.close}

(* bars without a range: open = high = low = close *)
FlatShapes == {b \in BarShapes : b.low = b.high}

MakeBar(ts, b) ==
    [timestamp |-> ts, open |-> b.open, high |-> b.high, low |-> b.low,
     close |-> b.close, volume |-> b.volume]

NoBar == [timestamp |-> 0, open |-> 0, high |-> 0, low |-> 0, close |-> 0,
          volume |-> 0]

(* the first bar early in its day, or the last one of its day *)
FirstTimes == {BarSeconds, SecondsPerDay - BarSeconds}

(* risk_manager_({2.0, 0.10, 20, 5}) *)
EngineRiskConfig ==
    [atr_stop_multiplier |-> RInt(2), max_trades_per_day |-> 20,
     cooldown_bars |-> 5]

(* RiskConfig with other limits, as in scenario S4 *)
RiskConfigs ==
    [atr_stop_multiplier : {RInt(2)},
     max_trades_per_day : 1..MaxTradesCfg,
     cooldown_bars : {0, MaxCooldownCfg}]

(* alloc_amt = 100000.0 * 0.20, the dummy ATR is close * 0.01 *)
AllocAmt == RMul(RInt(100000), Rat(20, 100))
DummyAtr(close) == RMul(close, Rat(1, 100))

----------------------------------------------------------------------------
(* History of the run, for stating properties; no action reads it *)

NoFill == [bar |-> 0]

NewHist ==
    [calls |-> 0,            \* calls made so far (stand-alone ExecutionEngine)
     submits |-> 0,          \* submit_order calls while processing this bar
     snap |-> <<>>,          \* <<cash, position, trades>> at the first of them
     order |-> <<>>,         \* <<side, quantity>> of the last submit_order
     order_bar |-> 0,        \* bar on which it was submitted
     order_time |-> 0,       \* and the timestamp of that bar
     fill |-> NoFill,        \* the fill of this bar
     open_fill |-> <<>>,     \* <<side, time, price>> of the fill that opened
                             \* the position
     open_order_time |-> 0,  \* timestamp of the bar its order was submitted on
     entry_order_times |-> <<>>,  \* the same, for every trade of the ledger
     decision |-> <<>>,      \* this bar's call of can_enter
     capable_today |-> 0,    \* bars of this day with a signal while flat
     entered_today |-> 0,    \* those on which the entry was submitted
     refused_yesterday |-> FALSE,  \* an entry was refused the day before
     stopped |-> FALSE]      \* check_exit returned true on the bar of the
                             \* last submit_order

Account(e) == <<e.cash_, e.position_, e.trades_>>

(* submit_order(side, quantity) is called in state e *)
HistSubmit(h, e, side, quantity) ==
    [h EXCEPT !.submits = @ + 1,
              !.snap = IF h.submits = 0 THEN Account(e) ELSE @,
              !.order = <<side, quantity>>,
              !.order_bar = bar_index,
              !.order_time = bar.timestamp]

(* close_position() is called in state e: it submits only when there is a  *)
(* position                                                                *)
HistClose(h, e) ==
    IF e.position_ # Zero
    THEN HistSubmit(h, e, -e.position_side_, RAbs(e.position_))
    ELSE h

(* the fill that took e to e2 while processing bar b, the k-th bar: what   *)
(* it did to the account                                                   *)
HistFill(h, e, e2, k, b) ==
    LET bought == RSub(e2.position_, e.position_)
        paid == RSub(e.cash_, e2.cash_)
        opened == e.position_ = Zero /\ e2.position_ # Zero
        closed == e.position_ # Zero /\ e2.position_ = Zero
    IN  [h EXCEPT
            !.fill = [bar |-> k, time |-> b.timestamp,
                      side |-> IF RLt(Zero, bought) THEN 1
                               ELSE IF RLt(bought, Zero) THEN -1 ELSE 0,
                      qty |-> RAbs(bought),
                      price |-> IF bought = Zero THEN Zero
                                ELSE RDiv(paid, bought),
                      before |-> e.position_, after |-> e2.position_,
                      order |-> h.order,
                      submits |-> h.submits,
                      order_bar |-> h.order_bar,
                      order_time |-> h.order_time,
                      ledger_before |-> e.trades_,
                      stopped |-> h.stopped,
                      open_fill |-> h.open_fill],
            !.order = <<>>,
            !.order_bar = 0,
            !.order_time = 0,
            !.stopped = FALSE,
            !.open_fill = IF opened THEN <<e2.position_side_, b.timestamp,
                                           RDiv(paid, bought)>>
                          ELSE IF closed THEN <<>> ELSE @,
            !.open_order_time = IF opened THEN h.order_time
                                ELSE IF closed THEN 0 ELSE @,
            !.entry_order_times =
                IF closed THEN Append(@, h.open_order_time) ELSE @]

HistNextBar(h, ts) ==
    LET same_day == bar_index > 0
                    /\ CalendarDay(ts) = CalendarDay(bar.timestamp)
    IN  [h EXCEPT !.submits = 0, !.snap = <<>>, !.fill = NoFill,
                  !.decision = <<>>,
                  !.capable_today = IF same_day THEN @ ELSE 0,
                  !.entered_today = IF same_day THEN @ ELSE 0,
                  !.refused_yesterday =
                      IF same_day THEN @
                      ELSE h.entered_today < h.capable_today]

HistDecision(h, r, allowed) ==
    [h EXCEPT !.decision = <<r, allowed>>,
              !.capable_today = @ + 1,
              !.entered_today = IF allowed THEN @ + 1 ELSE @]

----------------------------------------------------------------------------
(* Engine::run *)

EngineInit(configs) ==
    /\ pc = "loop"
    /\ bar = NoBar
    /\ bar_index = 0
    /\ signal = 0
    /\ execution_engine_ = NewExecutionEngine(RInt(InitialCapital))
    /\ risk_manager_ \in {NewRiskManager(c) : c \in configs}
    /\ regime_strategy_ = NewRegimeStrategy
    /\ momentum_strategy_ = NewMomentumStrategy
    /\ mean_reversion_strategy_ = NewMeanReversionStrategy
    /\ hist = NewHist
    /\ instance_ = <<>>

Init == EngineInit({EngineRiskConfig})

(* for (const auto &bar : bars): the next bar of an input of at most       *)
(* max_bars bars, its shape drawn from shapes                              *)
TakeBar(first_times, shapes, max_bars) ==
    /\ pc = "loop"
    /\ bar_index < max_bars
    /\ \E ts \in IF bar_index = 0 THEN first_times
                 ELSE {bar.timestamp + BarSeconds} :
         /\ \E b \in shapes : bar' = MakeBar(ts, b)
         /\ hist' = HistNextBar(hist, ts)
    /\ bar_index' = bar_index + 1
    /\ pc' = "fill"
    /\ signal' = 0
    /\ UNCHANGED instance_
    /\ UNCHANGED <<execution_engine_, risk_manager_, regime_strategy_,
                   momentum_strategy_, mean_reversion_strategy_>>

NextBar == TakeBar({BarSeconds}, BarShapes, MaxBars)

(* 1. Process Fills *)
ProcessFills ==
    /\ pc = "fill"
    /\ execution_engine_' = on_bar_open(execution_engine_, bar)
    /\ hist' = IF Account(execution_engine_') # Account(execution_engine_)
               THEN HistFill(hist, execution_engine_, execution_engine_',
                             bar_index, bar)
               ELSE hist
    /\ pc' = "risk"
    /\ UNCHANGED instance_
    /\ UNCHANGED <<bar, bar_index, signal, risk_manager_, regime_strategy_,
                   momentum_strategy_, mean_reversion_strategy_>>

(* faulty variant: the regime detector is updated ahead of the stop check *)
RiskCheck_after_regime ==
    /\ pc = "risk"
    /\ \E o \in RegimeObservations :
           regime_strategy_' = RegimeStrategy_on_bar(regime_strategy_, o)
    /\ IF is_invested(execution_engine_)
       THEN IF check_exit(risk_manager_, bar)
            THEN /\ execution_engine_' = close_position(execution_engine_)
                 /\ risk_manager_' = on_exit(risk_manager_, FALSE)
                 /\ hist' = [HistClose(hist, execution_engine_)
                                 EXCEPT !.stopped = TRUE]
            ELSE /\ risk_manager_' = check_exit_state(risk_manager_, bar)
                 /\ UNCHANGED <<execution_engine_, hist>>
       ELSE UNCHANGED <<execution_engine_, risk_manager_, hist>>
    /\ pc' = "momentum"
    /\ UNCHANGED instance_
    /\ UNCHANGED <<bar, bar_index, signal, momentum_strategy_,
                   mean_reversion_strategy_>>

(* 2. Intra-bar Risk Check *)
RiskCheck ==
    /\ pc = "risk"
    /\ IF is_invested(execution_engine_)
       THEN IF check_exit(risk_manager_, bar)
            THEN /\ execution_engine_' = close_position(execution_engine_)
                 /\ risk_manager_' = on_exit(risk_manager_, FALSE)
                 /\ hist' = [HistClose(hist, execution_engine_)
                                 EXCEPT !.stopped = TRUE]
            ELSE /\ risk_manager_' = check_exit_state(risk_manager_, bar)
                 /\ UNCHANGED <<execution_engine_, hist>>
       ELSE UNCHANGED <<execution_engine_, risk_manager_, hist>>
    /\ pc' = "regime"
    /\ UNCHANGED instance_
    /\ UNCHANGED <<bar, bar_index, signal, regime_strategy_,
                   momentum_strategy_, mean_reversion_strategy_>>

(* 3. Update Strategies: regime_strategy_->on_bar(bar) *)
RegimeOnBar ==
    /\ pc = "regime"
    /\ \E o \in RegimeObservations :
           regime_strategy_' = RegimeStrategy_on_bar(regime_strategy_, o)
    /\ pc' = "momentum"
    /\ UNCHANGED instance_
    /\ UNCHANGED <<bar, bar_index, signal, execution_engine_, risk_manager_,
                   momentum_strategy_, mean_reversion_strategy_, hist>>

(* momentum_strategy_->on_bar(bar) *)
MomentumOnBar ==
    /\ pc = "momentum"
    /\ \E o \in MomentumObservations :
           momentum_strategy_' = MomentumStrategy_on_bar(momentum_strategy_, o)
    /\ pc' = "mean_reversion"
    /\ UNCHANGED instance_
    /\ UNCHANGED <<bar, bar_index, signal, execution_engine_, risk_manager_,
                   regime_strategy_, mean_reversion_strategy_, hist>>

(* mean_reversion_strategy_->on_bar(bar) *)
MeanReversionOnBar ==
    /\ pc = "mean_reversion"
    /\ \E o \in MeanReversionObservations :
           mean_reversion_strategy_' =
               MeanReversionStrategy_on_bar(mean_reversion_strategy_, o)
    /\ pc' = "dispatch"
    /\ UNCHANGED instance_
    /\ UNCHANGED <<bar, bar_index, signal, execution_engine_, risk_manager_,
                   regime_strategy_, momentum_strategy_, hist>>

(* 4. Generate Signals *)
GenerateSignal ==
    /\ pc = "dispatch"
    /\ signal' = DispatchSignal(regime_strategy_.current_regime_,
                                momentum_strategy_, mean_reversion_strategy_)
    /\ pc' = "execute"
    /\ UNCHANGED instance_
    /\ UNCHANGED <<bar, bar_index, execution_engine_, risk_manager_,
                   regime_strategy_, momentum_strategy_,
                   mean_reversion_strategy_, hist>>

(* faulty variant: a signal against the open position closes it *)
ExecutionLogic_close_on_opposite ==
    /\ pc = "execute"
    /\ IF signal # 0 /\ ~is_invested(execution_engine_)
       THEN LET allowed == can_enter(risk_manager_, bar.timestamp)
                r1 == can_enter_state(risk_manager_, bar.timestamp)
                qty == RDiv(AllocAmt, RInt(bar.close))
                h1 == HistDecision(hist, risk_manager_, allowed)
            IN  IF allowed
                THEN /\ execution_engine_' =
                            submit_order(execution_engine_, signal, qty)
                     /\ risk_manager_' =
                            on_entry(r1, RInt(bar.close),
                                     DummyAtr(RInt(bar.close)), signal)
                     /\ hist' = HistSubmit(h1, execution_engine_, signal, qty)
                ELSE /\ risk_manager_' = r1
                     /\ hist' = h1
                     /\ UNCHANGED execution_engine_
       ELSE IF signal # execution_engine_.position_side_
               /\ is_invested(execution_engine_)
       THEN /\ execution_engine_' = close_position(execution_engine_)
            /\ risk_manager_' = on_exit(risk_manager_, TRUE)
            /\ hist' = HistClose(hist, execution_engine_)
       ELSE UNCHANGED <<execution_engine_, risk_manager_, hist>>
    /\ pc' = "cooldown"
    /\ UNCHANGED instance_
    /\ UNCHANGED <<bar, bar_index, signal, regime_strategy_,
                   momentum_strategy_, mean_reversion_strategy_>>

(* 5. Execution Logic *)
ExecutionLogic ==
    /\ pc = "execute"
    /\ IF signal # 0 /\ ~is_invested(execution_engine_)
       THEN LET allowed == can_enter(risk_manager_, bar.timestamp)
                r1 == can_enter_state(risk_manager_, bar.timestamp)
                qty == RDiv(AllocAmt, RInt(bar.close))
                h1 == HistDecision(hist, risk_manager_, allowed)
            IN  IF allowed
                THEN /\ execution_engine_' =
                            submit_order(execution_engine_, signal, qty)
                     /\ risk_manager_' =
                            on_entry(r1, RInt(bar.close),
                                     DummyAtr(RInt(bar.close)), signal)
                     /\ hist' = HistSubmit(h1, execution_engine_, signal, qty)
                ELSE /\ risk_manager_' = r1
                     /\ hist' = h1
                     /\ UNCHANGED execution_engine_
       ELSE IF signal = 0 /\ is_invested(execution_engine_)
       THEN /\ execution_engine_' = close_position(execution_engine_)
            /\ risk_manager_' = on_exit(risk_manager_, TRUE)
            /\ hist' = HistClose(hist, execution_engine_)
       ELSE UNCHANGED <<execution_engine_, risk_manager_, hist>>
    /\ pc' = "cooldown"
    /\ UNCHANGED instance_
    /\ UNCHANGED <<bar, bar_index, signal, regime_strategy_,
                   momentum_strategy_, mean_reversion_strategy_>>

(* Update Churn Cooldown *)
UpdateCooldown ==
    /\ pc = "cooldown"
    /\ risk_manager_' = update_cooldown(risk_manager_)
    /\ pc' = "loop"
    /\ UNCHANGED instance_
    /\ UNCHANGED <<bar, bar_index, signal, execution_engine_,
                   regime_strategy_, momentum_strategy_,
                   mean_reversion_strategy_, hist>>

(* faulty variant: the open position is closed at the last close before    *)
(* the report                                                              *)
Finish_flatten ==
    /\ pc = "loop"
    /\ bar_index >= 1
    /\ pc' = "done"
    /\ execution_engine_' =
           IF is_invested(execution_engine_)
           THEN execute_trade(execution_engine_, bar.timestamp,
                              -execution_engine_.position_side_,
                              RAbs(execution_engine_.position_),
                              RInt(bar.close))
           ELSE execution_engine_
    /\ UNCHANGED instance_
    /\ UNCHANGED <<bar, bar_index, signal, risk_manager_,
                   regime_strategy_, momentum_strategy_,
                   mean_reversion_strategy_, hist>>

(* the input is exhausted: Final Reporting *)
Finish ==
    /\ pc = "loop"
    /\ bar_index >= 1
    /\ pc' = "done"
    /\ UNCHANGED instance_
    /\ UNCHANGED <<bar, bar_index, signal, execution_engine_, risk_manager_,
                   regime_strategy_, momentum_strategy_,
                   mean_reversion_strategy_, hist>>

BarSteps ==
    \/ ProcessFills
    \/ RiskCheck
    \/ RegimeOnBar
    \/ MomentumOnBar
    \/ MeanReversionOnBar
    \/ GenerateSignal
    \/ ExecutionLogic
    \/ UpdateCooldown

Next ==
    \/ NextBar
    \/ BarSteps
    \/ Finish

Spec == Init /\ [][Next]_vars

----------------------------------------------------------------------------
(* The day-limit scenario (S4): an engine whose RiskManager has a small    *)
(* daily limit and cooldown, run over bars without a range                 *)

InitDay == EngineInit(RiskConfigs)

NextBarDay == TakeBar(FirstTimes, FlatShapes, MaxDayBars)

NextDay ==
    \/ NextBarDay
    \/ BarSteps
    \/ Finish

SpecDay == InitDay /\ [][NextDay]_vars

----------------------------------------------------------------------------
(* A stand-alone ExecutionEngine driven through its public methods *)

(* quantities at and just above the 1e-9 of execute_trade *)
ExecQuantities == {Epsilon, RAdd(Epsilon, Epsilon)}
ExecCapitals == {Zero, RInt(1)}

InitExec ==
    /\ pc = "api"
    /\ bar = NoBar
    /\ bar_index = 0
    /\ signal = 0
    /\ execution_engine_ \in {NewExecutionEngine(c) : c \in ExecCapitals}
    /\ risk_manager_ = NewRiskManager(EngineRiskConfig)
    /\ regime_strategy_ = NewRegimeStrategy
    /\ momentum_strategy_ = NewMomentumStrategy
    /\ mean_reversion_strategy_ = NewMeanReversionStrategy
    /\ hist = NewHist
    /\ instance_ = <<>>

CallSubmitOrder ==
    /\ pc = "api"
    /\ hist.calls < MaxCalls
    /\ \E side \in {-1, 1}, quantity \in ExecQuantities :
         /\ execution_engine_' =
                submit_order(execution_engine_, side, quantity)
         /\ hist' = [HistSubmit(hist, execution_engine_, side, quantity)
                         EXCEPT !.calls = @ + 1]
    /\ UNCHANGED instance_
    /\ UNCHANGED <<pc, bar, bar_index, signal, risk_manager_,
                   regime_strategy_, momentum_strategy_,
                   mean_reversion_strategy_>>

CallClosePosition ==
    /\ pc = "api"
    /\ hist.calls < MaxCalls
    /\ execution_engine_' = close_position(execution_engine_)
    /\ hist' = [HistClose(hist, execution_engine_) EXCEPT !.calls = @ + 1]
    /\ UNCHANGED instance_
    /\ UNCHANGED <<pc, bar, bar_index, signal, risk_manager_,
                   regime_strategy_, momentum_strategy_,
                   mean_reversion_strategy_>>

CallOnBarOpen ==
    /\ pc = "api"
    /\ hist.calls < MaxCalls
    /\ \E b \in FlatShapes :
         LET nb == MakeBar(bar.timestamp + BarSeconds, b)
             e2 == on_bar_open(execution_engine_, nb)
             h1 == IF Account(e2) # Account(execution_engine_)
                   THEN HistFill(hist, execution_engine_, e2,
                                 bar_index + 1, nb)
                   ELSE [hist EXCEPT !.fill = NoFill]
         IN  /\ bar' = nb
             /\ execution_engine_' = e2
             /\ hist' = [h1 EXCEPT !.submits = 0, !.snap = <<>>,
                                   !.calls = @ + 1]
    /\ bar_index' = bar_index + 1
    /\ UNCHANGED instance_
    /\ UNCHANGED <<pc, signal, risk_manager_, regime_strategy_,
                   momentum_strategy_, mean_reversion_strategy_>>

NextExec ==
    \/ CallSubmitOrder
    \/ CallClosePosition
    \/ CallOnBarOpen

SpecExec == InitExec /\ [][NextExec]_vars

----------------------------------------------------------------------------
(* Properties *)

Ledger == execution_engine_.trades_
Pending == execution_engine_.pending_order_side_ # 0
Filled == hist.fill # NoFill
MaxTradesPerDay == risk_manager_.config_.max_trades_per_day

(* C1: an order submitted while bar t is processed leaves cash, position   *)
(* and ledger as they are until the end of bar t; it is filled at step 1   *)
(* of bar t+1, at that bar's open, and every entry is stamped later than   *)
(* the bar its order was submitted on.                                     *)
C1_NoLookAhead ==
    /\ hist.submits > 0 => Account(execution_engine_) = hist.snap
    /\ Pending => hist.order_bar = IF pc = "fill" THEN bar_index - 1
                                   ELSE bar_index
    /\ pc = "risk" => ~Pending /\ hist.order = <<>>
    /\ Filled =>
          /\ hist.fill.bar = bar_index
          /\ hist.fill.order_bar = bar_index - 1
          /\ hist.fill.price = RInt(bar.open)
          /\ hist.fill.time > hist.fill.order_time
    /\ Len(hist.entry_order_times) = Len(Ledger)
    /\ \A i \in 1..Len(Ledger) :
          Ledger[i].entry_time > hist.entry_order_times[i]
    /\ execution_engine_.position_ # Zero =>
          execution_engine_.last_entry_time_ > hist.open_order_time

(* an entry is filled after a trade was closed *)
C1_Witness ==
    /\ Filled
    /\ hist.fill.before = Zero
    /\ Len(Ledger) >= 1

(* C2: the fill of a bar is the same for every bar with the same open and  *)
(* timestamp, whatever its high, low, close and volume; a fill is the      *)
(* pending order, at the open.                                             *)
ShuffledBars(b) ==
    {[timestamp |-> b.timestamp, open |-> b.open, high |-> h, low |-> l,
      close |-> c, volume |-> v] :
        h \in Prices, l \in Prices, c \in Prices, v \in {1, 2}}

C2_FillIgnoresRestOfBar ==
    /\ pc = "fill" =>
          \A b2 \in ShuffledBars(bar) :
              on_bar_open(execution_engine_, b2)
                  = on_bar_open(execution_engine_, bar)
    /\ Filled =>
          /\ hist.fill.price = RInt(bar.open)
          /\ <<hist.fill.side, hist.fill.qty>> = hist.fill.order

(* an order is about to be filled on a bar that closes away from its open *)
C2_Witness ==
    /\ pc = "fill"
    /\ Pending
    /\ bar.close # bar.open

(* C3: at every bar, equity at the close is the initial capital plus the   *)
(* pnl of the ledger plus side * quantity * (close - entry fill price) of  *)
(* the open position.                                                      *)
RECURSIVE SumPnl(_)
SumPnl(trades) ==
    IF trades = <<>> THEN Zero
    ELSE RAdd(trades[1].pnl, SumPnl(Tail(trades)))

Unrealized ==
    IF execution_engine_.position_side_ = 0 THEN Zero
    ELSE RMul(RMul(RInt(execution_engine_.position_side_),
                   RAbs(execution_engine_.position_)),
              RSub(RInt(bar.close), hist.open_fill[3]))

C3_CashConservation ==
    bar_index >= 1 =>
        get_equity(execution_engine_, RInt(bar.close))
            = RAdd(RAdd(RInt(InitialCapital), SumPnl(Ledger)), Unrealized)

(* a short trade with a loss in the ledger and an open position off its    *)
(* entry price                                                             *)
C3_Witness ==
    /\ \E i \in 1..Len(Ledger) :
          Ledger[i].side = -1 /\ RLt(Ledger[i].pnl, Zero)
    /\ execution_engine_.position_side_ # 0
    /\ Unrealized # Zero

(* C4: there is at most one pending order, the last one submitted; a fill  *)
(* is that order, and on_bar_open leaves no pending order, so that no      *)
(* order is filled twice.                                                  *)
C4_SinglePendingOrder ==
    /\ Pending => hist.order = <<execution_engine_.pending_order_side_,
                                 execution_engine_.pending_order_qty_>>
    /\ hist.submits = 0 => ~Pending
    /\ Filled =>
          /\ hist.fill.order # <<>>
          /\ hist.fill.order = <<hist.fill.side, hist.fill.qty>>

(* a fill after two submits *)
C4_Witness ==
    /\ Filled
    /\ hist.fill.submits >= 2
    /\ hist.submits = 0

(* C5: submit_order is called at most once while a bar is processed. *)
C5_OneSubmitPerBar == hist.submits <= 1

(* C6: the position is zero iff its side is zero, and is_invested() holds  *)
(* iff the side is not zero.                                               *)
C6_PositionConsistency ==
    /\ execution_engine_.position_ = Zero
           <=> execution_engine_.position_side_ = 0
    /\ is_invested(execution_engine_)
           <=> execution_engine_.position_side_ # 0

(* C7: a fill opens a position from flat or brings one exactly to flat. *)
C7_OpenOrCloseOnly ==
    Filled =>
        \/ hist.fill.before = Zero /\ hist.fill.after # Zero
        \/ hist.fill.before # Zero /\ hist.fill.after = Zero

(* a short position is closed by a fill *)
C7_Witness ==
    /\ Filled
    /\ RLt(hist.fill.before, Zero)
    /\ hist.fill.after = Zero

(* C8: a fill appends a trade iff it takes the position from non-flat to   *)
(* flat; the trade has the side, time and price of the fill that opened    *)
(* the position, the open of the closing bar as exit price, and            *)
(* pnl = side * (exit_price - entry_price) * quantity.                     *)
C8_TradeEmission ==
    Filled =>
        LET f == hist.fill
            closing == f.before # Zero /\ f.after = Zero
            t == Ledger[Len(Ledger)]
        IN  /\ Len(Ledger) = Len(f.ledger_before) + (IF closing THEN 1 ELSE 0)
            /\ SubSeq(Ledger, 1, Len(f.ledger_before)) = f.ledger_before
            /\ closing =>
                  /\ f.open_fill # <<>>
                  /\ t.side = f.open_fill[1]
                  /\ t.entry_time = f.open_fill[2]
                  /\ t.entry_price = f.open_fill[3]
                  /\ t.exit_time = bar.timestamp
                  /\ t.exit_price = RInt(bar.open)
                  /\ t.pnl = RMul(RMul(RInt(t.side),
                                       RSub(t.exit_price, t.entry_price)),
                                  f.qty)

(* a second trade is appended, a short one with a profit *)
C8_Witness ==
    /\ Filled
    /\ Len(Ledger) = Len(hist.fill.ledger_before) + 1
    /\ Len(Ledger) = 2
    /\ Ledger[2].side = -1
    /\ RLt(Zero, Ledger[2].pnl)

(* C9: on no calendar day are more than max_trades_per_day entries filled  *)
(* (entries counted by the day of their fill, Trade.entry_time).           *)
EntriesOnDay(D) ==
    Cardinality({i \in 1..Len(Ledger) : CalendarDay(Ledger[i].entry_time) = D})
    + (IF /\ execution_engine_.position_side_ # 0
          /\ CalendarDay(execution_engine_.last_entry_time_) = D
       THEN 1 ELSE 0)

C9_DailyEntryCap ==
    \A D \in 0..CalendarDay(bar.timestamp) : EntriesOnDay(D) <= MaxTradesPerDay

(* C10: can_enter is true iff, the count being 0 on a new calendar day,    *)
(* trades_today < max_trades_per_day and the cooldown is 0, and the entry  *)
(* is submitted iff it is; without cooldown the first max_trades_per_day   *)
(* signals of a day that come while flat are entered and the later ones    *)
(* refused.                                                                *)
Min(a, b) == IF a < b THEN a ELSE b

C10_EntryGate ==
    /\ hist.decision # <<>> =>
          LET r == hist.decision[1]
              allowed == hist.decision[2]
              today == IF CalendarDay(bar.timestamp)
                              # CalendarDay(r.last_trade_day_)
                       THEN 0 ELSE r.trades_today_
          IN  /\ allowed <=> (today < MaxTradesPerDay /\ r.cooldown_counter_ = 0)
              /\ hist.submits = (IF allowed THEN 1 ELSE 0)
              /\ allowed => hist.order[1] = signal
    /\ risk_manager_.config_.cooldown_bars = 0 =>
          hist.entered_today = Min(hist.capable_today, MaxTradesPerDay)

(* with a limit of 2 the third signal of the day before was refused and    *)
(* the first signal of this day is entered                                 *)
C10_Witness ==
    /\ MaxTradesPerDay = 2
    /\ risk_manager_.config_.cooldown_bars = 0
    /\ hist.refused_yesterday
    /\ hist.capable_today = 1
    /\ hist.entered_today = 1

(* C11: after a trade is closed with a loss no entry is submitted on the   *)
(* cooldown_bars bars that follow the bar of the closing fill.             *)
EntrySubmitted == hist.decision # <<>> /\ hist.decision[2]

BarsSince(time) == (bar.timestamp - time) \div BarSeconds

C11_CooldownAfterLoss ==
    \A i \in 1..Len(Ledger) :
        (/\ RLt(Ledger[i].pnl, Zero)
         /\ BarsSince(Ledger[i].exit_time)
                \in 1..risk_manager_.config_.cooldown_bars)
            => ~EntrySubmitted

----------------------------------------------------------------------------
(* A stand-alone RiskManager driven through its public methods *)

(* atr_value of on_entry: the engine's 1% of a price of 1, and a wide one *)
RiskAtrs == {Rat(1, 100), RInt(1)}

InitRisk ==
    /\ pc = "risk_api"
    /\ bar = NoBar
    /\ bar_index = 0
    /\ signal = 0
    /\ execution_engine_ = NewExecutionEngine(RInt(InitialCapital))
    /\ risk_manager_ = NewRiskManager(EngineRiskConfig)
    /\ regime_strategy_ = NewRegimeStrategy
    /\ momentum_strategy_ = NewMomentumStrategy
    /\ mean_reversion_strategy_ = NewMeanReversionStrategy
    /\ hist = NewHist
    /\ instance_ = <<>>

CallOnEntry ==
    /\ pc = "risk_api"
    /\ hist.calls < MaxCalls
    /\ \E price \in Prices, atr_value \in RiskAtrs, side \in {-1, 1} :
         risk_manager_' = on_entry(risk_manager_, RInt(price), atr_value, side)
    /\ hist' = [hist EXCEPT !.calls = @ + 1]
    /\ UNCHANGED instance_
    /\ UNCHANGED <<pc, bar, bar_index, signal, execution_engine_,
                   regime_strategy_, momentum_strategy_,
                   mean_reversion_strategy_>>

(* check_exit(bar): its return value is kept in hist.stopped *)
CallCheckExit ==
    /\ pc = "risk_api"
    /\ hist.calls < MaxCalls
    /\ \E b \in BarShapes :
         LET nb == MakeBar(bar.timestamp + BarSeconds, b)
         IN  /\ bar' = nb
             /\ risk_manager_' = check_exit_state(risk_manager_, nb)
             /\ hist' = [hist EXCEPT !.calls = @ + 1,
                                     !.stopped = check_exit(risk_manager_, nb)]
    /\ bar_index' = bar_index + 1
    /\ UNCHANGED instance_
    /\ UNCHANGED <<pc, signal, execution_engine_, regime_strategy_,
                   momentum_strategy_, mean_reversion_strategy_>>

CallOnExit ==
    /\ pc = "risk_api"
    /\ hist.calls < MaxCalls
    /\ \E is_win \in BOOLEAN :
         risk_manager_' = on_exit(risk_manager_, is_win)
    /\ hist' = [hist EXCEPT !.calls = @ + 1]
    /\ UNCHANGED instance_
    /\ UNCHANGED <<pc, bar, bar_index, signal, execution_engine_,
                   regime_strategy_, momentum_strategy_,
                   mean_reversion_strategy_>>

NextRisk ==
    \/ CallOnEntry
    \/ CallCheckExit
    \/ CallOnExit

SpecRisk == InitRisk /\ [][NextRisk]_vars

(* C12: between on_entry and on_exit a call of check_exit never lowers the *)
(* stop of a long position and never raises the stop of a short one.       *)
C12_TrailingStopMonotone ==
    [][(pc = "risk_api" /\ bar' # bar) =>
          /\ risk_manager_.side_ = 1 =>
                ~RLt(risk_manager_'.stop_loss_, risk_manager_.stop_loss_)
          /\ risk_manager_.side_ = -1 =>
                ~RGt(risk_manager_'.stop_loss_, risk_manager_.stop_loss_)]_vars

(* after two calls of check_exit the stop of a short position is below    *)
(* the stop that on_entry set                                              *)
C12_Witness ==
    /\ pc = "risk_api"
    /\ bar_index >= 2
    /\ risk_manager_.side_ = -1
    /\ RLt(risk_manager_.stop_loss_,
           RAdd(risk_manager_.entry_price_, StopDistance(risk_manager_)))

----------------------------------------------------------------------------
(* The stop scenario (S3): the engine over prices around 50, where the     *)
(* stop of an entry at 50, 2 * 0.01 * 50 away, is a price of the grid      *)

StopPrices == {49, 50, 51}

StopShapes ==
    {b \in [open : StopPrices, high : StopPrices, low : StopPrices,
            close : StopPrices, volume : {1}] :
        /\ b.low <= b.open /\ b.low <= b.close
        /\ b.high >= b.open /\ b.high >= b.close}

NextBarStop == TakeBar({BarSeconds}, StopShapes, MaxStopBars)

NextStop ==
    \/ NextBarStop
    \/ BarSteps
    \/ Finish

SpecStop == Init /\ [][NextStop]_vars

(* C13: while a position is open the stop check submits the closing order  *)
(* iff the bar's low is below the stop of a long position or its high      *)
(* above the stop of a short one; that order is filled at the open of the  *)
(* next bar and the trade's pnl is side * (open - entry price) * quantity. *)
StopTriggered ==
    \/ /\ execution_engine_.position_side_ = 1
       /\ RLt(RInt(bar.low), risk_manager_.stop_loss_)
    \/ /\ execution_engine_.position_side_ = -1
       /\ RGt(RInt(bar.high), risk_manager_.stop_loss_)

C13_StopExit ==
    /\ [][(pc = "risk" /\ is_invested(execution_engine_)) =>
            /\ hist'.stopped = StopTriggered
            /\ hist'.submits = (IF StopTriggered THEN 1 ELSE 0)
            /\ StopTriggered =>
                  /\ execution_engine_'.pending_order_side_
                         = -execution_engine_.position_side_
                  /\ execution_engine_'.pending_order_qty_
                         = RAbs(execution_engine_.position_)]_vars
    /\ [](Filled /\ hist.fill.stopped =>
            LET f == hist.fill
                t == Ledger[Len(Ledger)]
            IN  /\ f.order_bar = bar_index - 1
                /\ f.price = RInt(bar.open)
                /\ f.before # Zero /\ f.after = Zero
                /\ Len(Ledger) = Len(f.ledger_before) + 1
                /\ t.pnl = RMul(RMul(RInt(f.open_fill[1]),
                                     RSub(RInt(bar.open), f.open_fill[3])),
                                f.qty))

(* a long position entered at 51 is closed at 50 after the low of a bar    *)
(* went below its stop                                                     *)
C13_Witness ==
    /\ Filled
    /\ hist.fill.stopped
    /\ hist.fill.open_fill[1] = 1
    /\ RLt(Ledger[Len(Ledger)].pnl, Zero)

(* C14: the signal the engine acts on is the momentum signal in LV_TREND   *)
(* and HV_TREND, the mean-reversion signal in LV_RANGE and 0 otherwise,    *)
(* and an entry is submitted with that signal as its side: never on a bar  *)
(* whose regime is HV_RANGE.                                               *)
Regime == regime_strategy_.current_regime_

StepAfter ==
    [loop |-> {"fill", "done"}, fill |-> {"risk"}, risk |-> {"regime"},
     regime |-> {"momentum"}, momentum |-> {"mean_reversion"},
     mean_reversion |-> {"dispatch"}, dispatch |-> {"execute"},
     execute |-> {"cooldown"}, cooldown |-> {"loop"}, done |-> {}]

PendingOrder(e) == <<e.pending_order_side_, e.pending_order_qty_>>

C15_StepOrder ==
    [][/\ pc' \in StepAfter[pc]
       /\ (bar' # bar \/ bar_index' # bar_index) =>
             pc = "loop" /\ pc' = "fill" /\ bar_index' = bar_index + 1
       /\ Account(execution_engine_') # Account(execution_engine_) =>
             pc = "fill"
       /\ PendingOrder(execution_engine_') # PendingOrder(execution_engine_) =>
             \/ pc = "fill" /\ execution_engine_'.pending_order_side_ = 0
             \/ pc = "risk" /\ is_invested(execution_engine_)
             \/ pc = "execute"
       /\ hist'.submits > hist.submits => pc \in {"risk", "execute"}
       /\ risk_manager_' # risk_manager_ =>
             \/ pc = "risk" /\ is_invested(execution_engine_)
             \/ pc \in {"execute", "cooldown"}
       /\ regime_strategy_' # regime_strategy_ => pc = "regime"
       /\ momentum_strategy_' # momentum_strategy_ => pc = "momentum"
       /\ mean_reversion_strategy_' # mean_reversion_strategy_ =>
             pc = "mean_reversion"
       /\ signal' # signal => pc \in {"dispatch", "loop"}]_vars

(* at the end of a bar: an order was settled, the stop check moved the     *)
(* trailing stop, the regime is known and the close was submitted          *)
C15_Witness ==
    /\ pc = "cooldown"
    /\ Filled
    /\ is_invested(execution_engine_)
    /\ risk_manager_.highest_price_ # risk_manager_.entry_price_
    /\ Regime = "HV_RANGE"
    /\ hist.submits = 1

----------------------------------------------------------------------------
(* Engine::run with the strategies' indicators warming up *)

InitWarm ==
    /\ pc = "loop"
    /\ bar = NoBar
    /\ bar_index = 0
    /\ signal = 0
    /\ execution_engine_ = NewExecutionEngine(RInt(InitialCapital))
    /\ risk_manager_ = NewRiskManager(EngineRiskConfig)
    /\ regime_strategy_ = WarmRegimeStrategy
    /\ momentum_strategy_ = WarmMomentumStrategy
    /\ mean_reversion_strategy_ = WarmMeanReversionStrategy
    /\ hist = NewHist
    /\ instance_ = <<>>

NextBarWarm == TakeBar({BarSeconds}, BarShapes, MaxWarmBars)

(* regime_strategy_->on_bar(bar) *)
RegimeOnBarWarm ==
    /\ pc = "regime"
    /\ LET s == RegimeStrategy_update(regime_strategy_, bar)
       IN  \E o \in RegimeObservations :
               /\ o.ready = RegimeStrategy_ready(s)
               /\ regime_strategy_' = RegimeStrategy_on_bar(s, o)
    /\ pc' = "momentum"
    /\ UNCHANGED instance_
    /\ UNCHANGED <<bar, bar_index, signal, execution_engine_, risk_manager_,
                   momentum_strategy_, mean_reversion_strategy_, hist>>

(* momentum_strategy_->on_bar(bar) *)
MomentumOnBarWarm ==
    /\ pc = "momentum"
    /\ LET s == MomentumStrategy_update(momentum_strategy_)
       IN  \E o \in MomentumStrategy_observations(s) :
               momentum_strategy_' = MomentumStrategy_on_bar(s, o)
    /\ pc' = "mean_reversion"
    /\ UNCHANGED instance_
    /\ UNCHANGED <<bar, bar_index, signal, execution_engine_, risk_manager_,
                   regime_strategy_, mean_reversion_strategy_, hist>>

(* mean_reversion_strategy_->on_bar(bar) *)
MeanReversionOnBarWarm ==
    /\ pc = "mean_reversion"
    /\ LET s == MeanReversionStrategy_update(mean_reversion_strategy_, bar)
       IN  \E o \in MeanReversionObservations :
               /\ o.ready = MeanReversionStrategy_ready(s)
               /\ mean_reversion_strategy_' =
                      MeanReversionStrategy_on_bar(s, o)
    /\ pc' = "dispatch"
    /\ UNCHANGED instance_
    /\ UNCHANGED <<bar, bar_index, signal, execution_engine_, risk_manager_,
                   regime_strategy_, momentum_strategy_, hist>>

NextWarm ==
    \/ NextBarWarm
    \/ ProcessFills
    \/ RiskCheck
    \/ RegimeOnBarWarm
    \/ MomentumOnBarWarm
    \/ MeanReversionOnBarWarm
    \/ GenerateSignal
    \/ ExecutionLogic
    \/ UpdateCooldown
    \/ Finish

SpecWarm == InitWarm /\ [][NextWarm]_vars

(* C17: once a strategy's on_bar goes on to its decision, every indicator  *)
(* the decision reads is ready, and no window it reads holds a value that  *)
(* an indicator returned from update while that indicator was not ready    *)
(* (the momentum z-score window is fed the output of roc_)                 *)
C17_ReadyInputs ==
    /\ RegimeStrategy_ready(regime_strategy_) =>
           /\ RollingStats_is_ready(regime_strategy_.vol_short_)
           /\ RollingStats_is_ready(regime_strategy_.vol_long_)
           /\ SimpleMovingAverage_is_ready(regime_strategy_.sma_trend_)
    /\ MomentumStrategy_ready(momentum_strategy_) =>
           /\ RollingStats_is_ready(momentum_strategy_.roc_zscore_)
           /\ momentum_strategy_.roc_zscore_.buffer_.unready_ = 0
           /\ ExponentialMovingAverage_is_ready(momentum_strategy_.ema_12_)
           /\ ExponentialMovingAverage_is_ready(momentum_strategy_.ema_26_)
           /\ SimpleMovingAverage_is_ready(momentum_strategy_.vol_avg_)
           /\ RSI_is_ready(momentum_strategy_.rsi_)
    /\ MeanReversionStrategy_ready(mean_reversion_strategy_) =>
           /\ BollingerBands_is_ready(mean_reversion_strategy_.bb_)
           /\ RSI_is_ready(mean_reversion_strategy_.rsi_)
           /\ RollingStats_is_ready(mean_reversion_strategy_.vol_20_)
           /\ RollingStats_is_ready(mean_reversion_strategy_.vol_60_)

(* C18: the momentum and the mean-reversion signal are 0 as long as one of *)
(* the strategy's indicators is not ready; the regime is UNDEFINED exactly *)
(* until both volatility windows and the trend SMA are ready, and a regime *)
(* that is defined is never UNDEFINED again                                *)
C18_WarmUp ==
    /\ [](/\ ~(/\ RateOfChange_is_ready(momentum_strategy_.roc_)
               /\ RollingStats_is_ready(momentum_strategy_.roc_zscore_)
               /\ ExponentialMovingAverage_is_ready(momentum_strategy_.ema_12_)
               /\ ExponentialMovingAverage_is_ready(momentum_strategy_.ema_26_)
               /\ SimpleMovingAverage_is_ready(momentum_strategy_.vol_avg_)
               /\ RSI_is_ready(momentum_strategy_.rsi_))
              => momentum_strategy_.current_signal_ = 0
          /\ ~(/\ BollingerBands_is_ready(mean_reversion_strategy_.bb_)
               /\ RSI_is_ready(mean_reversion_strategy_.rsi_)
               /\ RollingStats_is_ready(mean_reversion_strategy_.vol_20_)
               /\ RollingStats_is_ready(mean_reversion_strategy_.vol_60_))
              => mean_reversion_strategy_.current_signal_ = 0
          /\ Regime = "UNDEFINED" <=>
                 ~(/\ RollingStats_is_ready(regime_strategy_.vol_short_)
                   /\ RollingStats_is_ready(regime_strategy_.vol_long_)
                   /\ SimpleMovingAverage_is_ready(regime_strategy_.sma_trend_)))
    /\ [][Regime # "UNDEFINED" => Regime' # "UNDEFINED"]_vars

(* bar 100: the momentum strategy has gone on to its decision with roc_    *)
(* not ready and kept the signal at 0, the mean-reversion strategy is      *)
(* ready and signals, the regime is not defined yet                        *)
C18_Witness ==
    /\ pc = "dispatch"
    /\ bar_index = RANKING_PERIOD
    /\ MomentumStrategy_ready(momentum_strategy_)
    /\ ~RateOfChange_is_ready(momentum_strategy_.roc_)
    /\ momentum_strategy_.current_signal_ = 0
    /\ mean_reversion_strategy_.current_signal_ = 1
    /\ Regime = "UNDEFINED"

----------------------------------------------------------------------------
(* Engine::run on a constant-price input: every bar has the first bar's    *)
(* price as open, high, low and close, and its volume                      *)

InitConst ==
    /\ pc = "loop"
    /\ bar = NoBar
    /\ bar_index = 0
    /\ signal = 0
    /\ execution_engine_ = NewExecutionEngine(RInt(InitialCapital))
    /\ risk_manager_ = NewRiskManager(EngineRiskConfig)
    /\ regime_strategy_ = ValueRegimeStrategy
    /\ momentum_strategy_ = WarmMomentumStrategy
    /\ mean_reversion_strategy_ = WarmMeanReversionStrategy
    /\ hist = NewHist
    /\ instance_ = <<>>

ConstShapes ==
    IF bar_index = 0 THEN FlatShapes
    ELSE {b \in FlatShapes : b.close = bar.close /\ b.volume = bar.volume}

NextBarConst == TakeBar({BarSeconds}, ConstShapes, MaxConstBars)

(* regime_strategy_->on_bar(bar), the comparisons computed *)
RegimeOnBarValue ==
    /\ pc = "regime"
    /\ LET s == RegimeStrategy_update_value(regime_strategy_, bar)
       IN  regime_strategy_' =
               RegimeStrategy_on_bar(s, RegimeStrategy_observation(s, bar))
    /\ pc' = "momentum"
    /\ UNCHANGED instance_
    /\ UNCHANGED <<bar, bar_index, signal, execution_engine_, risk_manager_,
                   momentum_strategy_, mean_reversion_strategy_, hist>>

NextConst ==
    \/ NextBarConst
    \/ ProcessFills
    \/ RiskCheck
    \/ RegimeOnBarValue
    \/ MomentumOnBarWarm
    \/ MeanReversionOnBarWarm
    \/ GenerateSignal
    \/ ExecutionLogic
    \/ UpdateCooldown
    \/ Finish

SpecConst == InitConst /\ [][NextConst]_vars

(* C19: on a constant-price input no order is ever submitted, the ledger   *)
(* stays empty and the equity at the bar's close is the initial capital    *)
(* on every bar                                                            *)
C19_ConstantNoTrade ==
    /\ hist.submits = 0
    /\ ~Pending
    /\ Ledger = <<>>
    /\ bar_index > 0 =>
           get_equity(execution_engine_, RInt(bar.close))
               = RInt(InitialCapital)

(* bar 301 is done: the regime is defined, both signal producers are       *)
(* ready and signal, and nothing was submitted                             *)
C19_Witness ==
    /\ pc = "done"
    /\ bar_index = TREND_SMA + 1
    /\ Regime # "UNDEFINED"
    /\ momentum_strategy_.current_signal_ = 1
    /\ mean_reversion_strategy_.current_signal_ = -1
    /\ hist.submits = 0

(* C20: on a constant-price input the regime, once it is defined, is       *)
(* LV_RANGE                                                                *)
C20_ConstantRegime == Regime \in {"UNDEFINED", "LV_RANGE"}

(* C20 as the code has it: on a constant-price input both std_dev_ are 0,  *)
(* low_vol (0 < 0) and trending (0 > 0.005) are false, and the regime is   *)
(* HV_RANGE from the bar on which the detector is ready                    *)
C20_ConstantRegimeHV ==
    Regime = IF RegimeStrategy_ready(regime_strategy_) THEN "HV_RANGE"
             ELSE "UNDEFINED"

(* the detector became ready on bar 300 and reports HV_RANGE on equal      *)
(* variances                                                               *)
C20_Witness ==
    /\ pc = "momentum"
    /\ bar_index = TREND_SMA
    /\ Regime = "HV_RANGE"
    /\ regime_strategy_.vol_short_.variance_ = Zero
    /\ regime_strategy_.vol_long_.variance_ = Zero
    /\ regime_strategy_.sma_trend_.current_value_ = RInt(bar.close)

----------------------------------------------------------------------------
(* A stand-alone CircularBuffer<T> with its vector, its write position     *)
(* head_ and its count_, driven through push and get. hist.pushed is the   *)
(* sequence of the values pushed, hist.result what the last get did.       *)

NewCircularBufferVector(capacity) ==
    [buffer_ |-> [i \in 0..(capacity - 1) |-> 0],
     capacity_ |-> capacity, head_ |-> 0, count_ |-> 0]

(* faulty variant: count_ is incremented on every push *)
CircularBuffer_push_count_all(b, value) ==
    [b EXCEPT !.buffer_[b.head_] = value,
              !.head_ = (b.head_ + 1) % b.capacity_,
              !.count_ = @ + 1]

CircularBuffer_push(b, value) ==
    [b EXCEPT !.buffer_[b.head_] = value,
              !.head_ = (b.head_ + 1) % b.capacity_,
              !.count_ = IF @ < b.capacity_ THEN @ + 1 ELSE @]

OutOfRange == [thrown |-> "std::out_of_range"]

(* faulty variant: the physical index is counted from head_ *)
CircularBuffer_get_from_head(b, index) ==
    IF index >= b.count_ THEN OutOfRange
    ELSE [value |-> b.buffer_[(b.head_ - index + b.capacity_) % b.capacity_]]

CircularBuffer_get(b, index) ==
    IF index >= b.count_ THEN OutOfRange
    ELSE [value |->
              b.buffer_[(b.head_ - 1 - index + b.capacity_) % b.capacity_]]

InitBuffer ==
    /\ pc = "buffer_api"
    /\ bar = NoBar
    /\ bar_index = 0
    /\ signal = 0
    /\ execution_engine_ = NewExecutionEngine(RInt(InitialCapital))
    /\ risk_manager_ = NewRiskManager(EngineRiskConfig)
    /\ regime_strategy_ = NewRegimeStrategy
    /\ momentum_strategy_ = NewMomentumStrategy
    /\ mean_reversion_strategy_ = NewMeanReversionStrategy
    /\ hist = [pushed |-> <<>>, result |-> <<>>]
    /\ instance_ \in {NewCircularBufferVector(capacity) :
                          capacity \in 1..MaxCapacity}

CallPush ==
    /\ pc = "buffer_api"
    /\ Len(hist.pushed) < MaxPushes
    /\ \E value \in Prices :
         /\ instance_' = CircularBuffer_push(instance_, value)
         /\ hist' = [pushed |-> Append(hist.pushed, value), result |-> <<>>]
    /\ UNCHANGED <<pc, bar, bar_index, signal, execution_engine_,
                   risk_manager_, regime_strategy_, momentum_strategy_,
                   mean_reversion_strategy_>>

CallGet ==
    /\ pc = "buffer_api"
    /\ \E index \in 0..MaxCapacity :
         hist' = [hist EXCEPT
                     !.result = <<index, CircularBuffer_get(instance_, index)>>]
    /\ UNCHANGED <<pc, bar, bar_index, signal, execution_engine_,
                   risk_manager_, regime_strategy_, momentum_strategy_,
                   mean_reversion_strategy_, instance_>>

NextBuffer ==
    \/ CallPush
    \/ CallGet

SpecBuffer == InitBuffer /\ [][NextBuffer]_vars

(* C21: after any pushes into a buffer of capacity N, size() is at most N  *)
(* and is the smaller of N and the number of pushes, is_full() holds       *)
(* exactly when size() = N, and get(i) throws out_of_range for every       *)
(* i >= size()                                                             *)
C21_BufferSize ==
    /\ size(instance_) <= instance_.capacity_
    /\ size(instance_) = Min(Len(hist.pushed), instance_.capacity_)
    /\ is_full(instance_) <=> Len(hist.pushed) >= instance_.capacity_
    /\ \A index \in 0..(MaxCapacity + 1) :
           index >= size(instance_) =>
               CircularBuffer_get(instance_, index) = OutOfRange
    /\ hist.result # <<>> =>
           (hist.result[2] = OutOfRange <=>
                hist.result[1] >= Min(Len(hist.pushed), instance_.capacity_))

(* a get past the end of a buffer that has wrapped around *)
C21_Witness ==
    /\ pc = "buffer_api"
    /\ Len(hist.pushed) > instance_.capacity_
    /\ is_full(instance_)
    /\ hist.result = <<instance_.capacity_, OutOfRange>>

(* C22: after the pushes x1..xk, get(i) returns x(k-i) for every           *)
(* i < min(k, N): index 0 is the latest push, index size-1 the oldest      *)
(* one kept, and a push on a full buffer drops the oldest                  *)
C22_BufferOrder ==
    LET k == Len(hist.pushed)
    IN  /\ \A index \in 0..(Min(k, instance_.capacity_) - 1) :
               CircularBuffer_get(instance_, index)
                   = [value |-> hist.pushed[k - index]]
        /\ (hist.result # <<>> /\ hist.result[1] < Min(k, instance_.capacity_))
               => hist.result[2] = [value |-> hist.pushed[k - hist.result[1]]]

(* the oldest value kept by a buffer that has dropped two values, read     *)
(* by get(size-1)                                                          *)
C22_Witness ==
    /\ pc = "buffer_api"
    /\ instance_.capacity_ = MaxCapacity
    /\ Len(hist.pushed) = instance_.capacity_ + 2
    /\ hist.pushed[1] # hist.pushed[3]
    /\ hist.result = <<instance_.capacity_ - 1, [value |-> hist.pushed[3]]>>

----------------------------------------------------------------------------
(* A stand-alone SimpleMovingAverage and a stand-alone RollingStats of one *)
(* period, each driven through update, and the batch sma of features.cpp.  *)
(* hist keeps the inputs of each and the values update returned.           *)

NaN == [nan |-> TRUE]

(* std::vector<double> sma(prices, period): the result at index i - 1 *)
sma(prices, period) ==
    LET first[i \in 0..period] ==
            IF i = 0 THEN Zero ELSE RAdd(first[i - 1], prices[i])
        sum[i \in period..Len(prices)] ==
            IF i = period THEN first[period]
            ELSE RAdd(RSub(sum[i - 1], prices[i - period]), prices[i])
    IN  [i \in 1..Len(prices) |->
            IF Len(prices) < period \/ i < period THEN NaN
            ELSE RDiv(sum[i], RInt(period))]

InitSma ==
    /\ pc = "sma_api"
    /\ bar = NoBar
    /\ bar_index = 0
    /\ signal = 0
    /\ execution_engine_ = NewExecutionEngine(RInt(InitialCapital))
    /\ risk_manager_ = NewRiskManager(EngineRiskConfig)
    /\ regime_strategy_ = NewRegimeStrategy
    /\ momentum_strategy_ = NewMomentumStrategy
    /\ mean_reversion_strategy_ = NewMeanReversionStrategy
    /\ hist = [sma_inputs |-> <<>>, sma_outputs |-> <<>>,
               stats_inputs |-> <<>>]
    /\ instance_ \in {[sma_ |-> NewSimpleMovingAverageOf(period),
                       stats_ |-> NewRollingStatsOf(period)] :
                          period \in 1..MaxPeriod}

CallSmaUpdate ==
    /\ pc = "sma_api"
    /\ Len(hist.sma_inputs) < MaxUpdates
    /\ \E price \in Prices :
         LET i == SimpleMovingAverage_update_value(instance_.sma_, RInt(price))
         IN  /\ instance_' = [instance_ EXCEPT !.sma_ = i]
             /\ hist' = [hist EXCEPT
                            !.sma_inputs = Append(@, RInt(price)),
                            !.sma_outputs = Append(@, i.current_value_)]
    /\ UNCHANGED <<pc, bar, bar_index, signal, execution_engine_,
                   risk_manager_, regime_strategy_, momentum_strategy_,
                   mean_reversion_strategy_>>

CallStatsUpdate ==
    /\ pc = "sma_api"
    /\ Len(hist.stats_inputs) < MaxUpdates
    /\ \E price \in Prices :
         /\ instance_' = [instance_ EXCEPT
                             !.stats_ =
                                 RollingStats_update_value(@, RInt(price))]
         /\ hist' = [hist EXCEPT !.stats_inputs = Append(@, RInt(price))]
    /\ UNCHANGED <<pc, bar, bar_index, signal, execution_engine_,
                   risk_manager_, regime_strategy_, momentum_strategy_,
                   mean_reversion_strategy_>>

NextSma ==
    \/ CallSmaUpdate
    \/ CallStatsUpdate

SpecSma == InitSma /\ [][NextSma]_vars

RECURSIVE SumLast(_, _)
SumLast(values, count) ==
    IF count = 0 THEN Zero
    ELSE RAdd(values[Len(values)],
              SumLast(SubSeq(values, 1, Len(values) - 1), count - 1))

Squares(values) == [i \in 1..Len(values) |-> RMul(values[i], values[i])]

(* C23: after k updates the running sum of SMA(P) is the sum of the last   *)
(* min(k, P) inputs, RollingStats(P) holds the sum and the sum of squares  *)
(* of its last min(k, P) inputs, and every value SMA's update returned     *)
(* from the P-th update on is the batch sma of the inputs at that index    *)
C23_RunningSums ==
    LET period == instance_.sma_.period_
        xs == hist.sma_inputs
        ys == hist.stats_inputs
    IN  /\ instance_.sma_.sum_ = SumLast(xs, Min(Len(xs), period))
        /\ instance_.stats_.sum_ = SumLast(ys, Min(Len(ys), period))
        /\ instance_.stats_.sum_sq_
               = SumLast(Squares(ys), Min(Len(ys), period))
        /\ \A i \in period..Len(xs) :
               hist.sma_outputs[i] = sma(xs, period)[i]

(* both windows have dropped inputs that differ from the ones they keep *)
C23_Witness ==
    /\ pc = "sma_api"
    /\ instance_.sma_.period_ = 2
    /\ Len(hist.sma_inputs) = MaxUpdates
    /\ Len(hist.stats_inputs) = MaxUpdates
    /\ hist.sma_inputs[1] # hist.sma_inputs[MaxUpdates]
    /\ hist.sma_outputs[MaxUpdates - 1] # hist.sma_outputs[MaxUpdates]
    /\ hist.stats_inputs[1] # hist.stats_inputs[MaxUpdates]

----------------------------------------------------------------------------
(* A stand-alone ATR driven through update(high, low, close), and the      *)
(* batch atr of features.cpp. hist keeps the bars and, for each update,    *)
(* is_ready() and the value returned.                                      *)

NewATR(period) ==
    [period_ |-> period, prev_close_ |-> NaN, initialized_count_ |-> 0,
     current_value_ |-> Zero]

TrueRange(high, low, prev_close) ==
    RMax(RSub(high, low),
         RMax(RAbs(RSub(high, prev_close)), RAbs(RSub(low, prev_close))))

ATR_update(i, high, low, close) ==
    LET tr == IF i.prev_close_ = NaN THEN RSub(high, low)
              ELSE TrueRange(high, low, i.prev_close_)
        period == RInt(i.period_)
    IN  IF i.initialized_count_ < i.period_
        THEN [i EXCEPT
                 !.prev_close_ = close,
                 !.initialized_count_ = @ + 1,
                 !.current_value_ =
                     IF i.initialized_count_ + 1 = i.period_
                     THEN RDiv(RAdd(@, tr), period)
                     ELSE RAdd(@, tr)]
        ELSE [i EXCEPT
                 !.prev_close_ = close,
                 !.current_value_ =
                     RDiv(RAdd(RMul(@, RInt(i.period_ - 1)), tr), period)]

ATR_is_ready(i) == i.initialized_count_ >= i.period_

(* std::vector<double> atr(high, low, close, period): the result at index  *)
(* i - 1; true_ranges[j - 1] is the true range of the bar at index j       *)
atr(high, low, close, period) ==
    LET n == Len(close)
        true_ranges == [j \in 1..(n - 1) |->
                           TrueRange(high[j + 1], low[j + 1], close[j])]
        first[j \in 0..period] ==
            IF j = 0 THEN Zero ELSE RAdd(first[j - 1], true_ranges[j])
        alpha == Rat(1, period)
        atr_value[j \in period..(n - 1)] ==
            IF j = period THEN RDiv(first[period], RInt(period))
            ELSE RAdd(RMul(alpha, true_ranges[j]),
                      RMul(RSub(RInt(1), alpha), atr_value[j - 1]))
    IN  [i \in 1..n |->
            IF Len(high) # Len(low) \/ Len(high) # n \/ Len(high) < period + 1
               \/ i < period + 1
            THEN NaN
            ELSE atr_value[i - 1]]

InitAtr ==
    /\ pc = "atr_api"
    /\ bar = NoBar
    /\ bar_index = 0
    /\ signal = 0
    /\ execution_engine_ = NewExecutionEngine(RInt(InitialCapital))
    /\ risk_manager_ = NewRiskManager(EngineRiskConfig)
    /\ regime_strategy_ = NewRegimeStrategy
    /\ momentum_strategy_ = NewMomentumStrategy
    /\ mean_reversion_strategy_ = NewMeanReversionStrategy
    /\ hist = [high |-> <<>>, low |-> <<>>, close |-> <<>>, outputs |-> <<>>]
    /\ instance_ \in {NewATR(period) : period \in 1..MaxPeriod}

CallAtrUpdate ==
    /\ pc = "atr_api"
    /\ Len(hist.close) < MaxUpdates
    /\ \E b \in BarShapes :
         LET i == ATR_update(instance_, RInt(b.high), RInt(b.low),
                             RInt(b.close))
         IN  /\ instance_' = i
             /\ hist' = [high |-> Append(hist.high, RInt(b.high)),
                         low |-> Append(hist.low, RInt(b.low)),
                         close |-> Append(hist.close, RInt(b.close)),
                         outputs |-> Append(hist.outputs,
                                            [ready |-> ATR_is_ready(i),
                                             value |-> i.current_value_])]
    /\ UNCHANGED <<pc, bar, bar_index, signal, execution_engine_,
                   risk_manager_, regime_strategy_, momentum_strategy_,
                   mean_reversion_strategy_>>

NextAtr == CallAtrUpdate

SpecAtr == InitAtr /\ [][NextAtr]_vars

(* C24: at every index at which the streaming ATR is ready, the value its  *)
(* update returned is the value of the batch atr over the same bars at     *)
(* that index                                                              *)
C24_AtrMatchesBatch ==
    \A i \in 1..Len(hist.outputs) :
        hist.outputs[i].ready =>
            hist.outputs[i].value
                = atr(hist.high, hist.low, hist.close, instance_.period_)[i]

----------------------------------------------------------------------------
(* One stand-alone indicator of each class, all of one period, each driven *)
(* through update; hist.updates counts the updates of each                 *)

IndicatorClasses == {"SMA", "EMA", "RSI", "Bollinger", "ATR", "ROC",
                     "RollingStats"}

InitReady ==
    /\ pc = "indicator_api"
    /\ bar = NoBar
    /\ bar_index = 0
    /\ signal = 0
    /\ execution_engine_ = NewExecutionEngine(RInt(InitialCapital))
    /\ risk_manager_ = NewRiskManager(EngineRiskConfig)
    /\ regime_strategy_ = NewRegimeStrategy
    /\ momentum_strategy_ = NewMomentumStrategy
    /\ mean_reversion_strategy_ = NewMeanReversionStrategy
    /\ hist = [updates |-> [c \in IndicatorClasses |-> 0]]
    /\ instance_ \in {[sma_ |-> NewSimpleMovingAverage(period),
                       ema_ |-> NewExponentialMovingAverage(period),
                       rsi_ |-> NewRSI(period),
                       bb_ |-> NewBollingerBands(period),
                       atr_ |-> NewATR(period),
                       roc_ |-> NewRateOfChange(period),
                       stats_ |-> NewRollingStats(period)] :
                          period \in 1..MaxPeriod}

(* the number of updates made so far on all the indicators *)
UpdatesMade ==
    hist.updates["SMA"] + hist.updates["EMA"] + hist.updates["RSI"]
        + hist.updates["Bollinger"] + hist.updates["ATR"]
        + hist.updates["ROC"] + hist.updates["RollingStats"]

(* one more update of the indicator of class c, which becomes i *)
Updated(c, field, i) ==
    /\ pc = "indicator_api"
    /\ UpdatesMade < MaxUpdates
    /\ instance_' = [instance_ EXCEPT ![field] = i]
    /\ hist' = [hist EXCEPT !.updates[c] = @ + 1]
    /\ UNCHANGED <<pc, bar, bar_index, signal, execution_engine_,
                   risk_manager_, regime_strategy_, momentum_strategy_,
                   mean_reversion_strategy_>>

UpdateSMA == Updated("SMA", "sma_", SimpleMovingAverage_update(instance_.sma_))

UpdateEMA ==
    Updated("EMA", "ema_", ExponentialMovingAverage_update(instance_.ema_))

UpdateRSI == Updated("RSI", "rsi_", RSI_update(instance_.rsi_))

UpdateBollinger ==
    Updated("Bollinger", "bb_", BollingerBands_update(instance_.bb_))

UpdateATR ==
    \E b \in FlatShapes :
        Updated("ATR", "atr_",
                ATR_update(instance_.atr_, RInt(b.high), RInt(b.low),
                           RInt(b.close)))

UpdateROC == Updated("ROC", "roc_", RateOfChange_update(instance_.roc_))

UpdateRollingStats ==
    Updated("RollingStats", "stats_",
            RollingStats_update(instance_.stats_, TRUE))

NextReady ==
    \/ UpdateSMA
    \/ UpdateEMA
    \/ UpdateRSI
    \/ UpdateBollinger
    \/ UpdateATR
    \/ UpdateROC
    \/ UpdateRollingStats

SpecReady == InitReady /\ [][NextReady]_vars

IsReady ==
    [SMA |-> SimpleMovingAverage_is_ready(instance_.sma_),
     EMA |-> ExponentialMovingAverage_is_ready(instance_.ema_),
     RSI |-> RSI_is_ready(instance_.rsi_),
     Bollinger |-> BollingerBands_is_ready(instance_.bb_),
     ATR |-> ATR_is_ready(instance_.atr_),
     ROC |-> RateOfChange_is_ready(instance_.roc_),
     RollingStats |-> RollingStats_is_ready(instance_.stats_)]

(* C25: an indicator of period P is ready exactly when it has had its      *)
(* warm-up count of updates: P for SMA, RollingStats, Bollinger and ATR,   *)
(* P + 1 for ROC and RSI, 1 for EMA; and an indicator that is ready is     *)
(* still ready after any further update                                    *)
C25_ReadyFromWarmUp ==
    /\ [](LET period == instance_.sma_.period_
              warmup == [SMA |-> period, RollingStats |-> period,
                         Bollinger |-> period, ATR |-> period,
                         ROC |-> period + 1, RSI |-> period + 1, EMA |-> 1]
          IN  \A c \in IndicatorClasses :
                  IsReady[c] <=> hist.updates[c] >= warmup[c])
    /\ [][\A c \in IndicatorClasses : IsReady[c] => IsReady'[c]]_vars

(* RSI and ROC of period 2: one has had two updates and is not ready, the  *)
(* other has had three and is                                              *)
C25_Witness ==
    /\ pc = "indicator_api"
    /\ instance_.sma_.period_ = 2
    /\ hist.updates["RSI"] = 2
    /\ ~IsReady["RSI"]
    /\ hist.updates["ROC"] = 3
    /\ IsReady["ROC"]

----------------------------------------------------------------------------
(* C26: the ledger is append-only: every step leaves the trades emitted    *)
(* so far unchanged and in place (the old ledger is a prefix of the new    *)
(* one), and every emitted trade has exit_time > entry_time.               *)
C26_LedgerAppendOnly ==
    /\ [](\A i \in 1..Len(Ledger) :
              Ledger[i].exit_time > Ledger[i].entry_time)
    /\ [][/\ Len(Ledger') >= Len(Ledger)
          /\ SubSeq(Ledger', 1, Len(Ledger)) = Ledger]_vars

(* a second trade has been appended behind the first, which closed earlier *)
C26_Witness ==
    /\ Filled
    /\ Len(Ledger) = 2
    /\ Len(hist.fill.ledger_before) = 1
    /\ Ledger[1] = hist.fill.ledger_before[1]
    /\ Ledger[1].exit_time <= Ledger[2].entry_time

----------------------------------------------------------------------------
(* C27: close_position() called while flat changes nothing: cash,          *)
(* position, ledger and any pending order stay as they are; called while   *)
(* invested it leaves cash, position and ledger alone and sets the pending *)
(* order to the side opposite to the position, with the absolute position  *)
(* as quantity.                                                            *)
C27_ClosePosition ==
    [][CallClosePosition =>
          LET e == execution_engine_
              e2 == execution_engine_'
          IN  IF ~is_invested(e)
              THEN e2 = e
              ELSE /\ Account(e2) = Account(e)
                   /\ e2.pending_order_side_ =
                          (IF RGt(e.position_, Zero) THEN -1 ELSE 1)
                   /\ e2.pending_order_qty_ = RAbs(e.position_)]_vars

----------------------------------------------------------------------------
(* MarketDataManager::load_csv and Engine::load_data, followed by          *)
(* Engine::run over the bars that were stored                              *)

is_valid(b) == b.timestamp > 0 /\ b.high >= b.low /\ b.open > 0

(* rows with high < low *)
ImpossibleShapes ==
    {b \in [open : Prices, high : Prices, low : Prices, close : Prices,
            volume : {1}] : b.high < b.low /\ b.open = b.close}

(* the lines of the file after the header: an empty line, a row of fewer   *)
(* than 6 columns, a row with a field that std::stod rejects, or a row     *)
(* of six numbers                                                          *)
Lines ==
    {[kind |-> k, row |-> <<>>] : k \in {"empty", "short", "text"}}
        \cup {[kind |-> "numbers", row |-> b] :
                  b \in BarShapes \cup ImpossibleShapes}

NewMarketDataManager == [data_store_ |-> <<>>]

(* the body of while (std::getline(file, line)), on the line-th line *)
load_csv_line(bars, line, number) ==
    IF line.kind = "empty" THEN bars
    ELSE IF line.kind = "short" THEN bars
    ELSE IF line.kind = "text" THEN bars
    ELSE Append(bars, MakeBar(number * BarSeconds, line.row))

(* after the last line: nothing is stored, and false returned, when no bar *)
(* was read                                                                *)
load_csv(m, bars) ==
    IF bars = <<>>
    THEN [result |-> FALSE, market_data_ |-> m]
    ELSE [result |-> TRUE, market_data_ |-> [m EXCEPT !.data_store_ = bars]]

get_bars(m) == m.data_store_

InitLoad ==
    /\ pc = "load_csv"
    /\ bar = NoBar
    /\ bar_index = 0
    /\ signal = 0
    /\ execution_engine_ = NewExecutionEngine(RInt(InitialCapital))
    /\ risk_manager_ = NewRiskManager(EngineRiskConfig)
    /\ regime_strategy_ = NewRegimeStrategy
    /\ momentum_strategy_ = NewMomentumStrategy
    /\ mean_reversion_strategy_ = NewMeanReversionStrategy
    /\ hist = NewHist
    /\ instance_ = [file |-> <<>>, bars |-> <<>>,
                    market_data_ |-> NewMarketDataManager, symbol_ |-> ""]

ReadLine ==
    /\ pc = "load_csv"
    /\ Len(instance_.file) < MaxLines
    /\ \E line \in Lines :
         instance_' =
             [instance_ EXCEPT
                 !.file = Append(@, line),
                 !.bars = load_csv_line(@, line, Len(instance_.file) + 1)]
    /\ UNCHANGED <<pc, bar, bar_index, signal, execution_engine_,
                   risk_manager_, regime_strategy_, momentum_strategy_,
                   mean_reversion_strategy_, hist>>

(* end of file: load_data sets symbol_ when load_csv returns true *)
LoadData ==
    /\ pc = "load_csv"
    /\ LET loaded == load_csv(instance_.market_data_, instance_.bars)
       IN  instance_' =
               [instance_ EXCEPT
                   !.market_data_ = loaded.market_data_,
                   !.symbol_ = IF loaded.result THEN "ICICIBANK" ELSE @]
    /\ pc' = "run"
    /\ UNCHANGED <<bar, bar_index, signal, execution_engine_,
                   risk_manager_, regime_strategy_, momentum_strategy_,
                   mean_reversion_strategy_, hist>>

(* run() returns at once when symbol_ is empty *)
Run ==
    /\ pc = "run"
    /\ pc' = IF instance_.symbol_ = "" THEN "done" ELSE "loop"
    /\ UNCHANGED instance_
    /\ UNCHANGED <<bar, bar_index, signal, execution_engine_,
                   risk_manager_, regime_strategy_, momentum_strategy_,
                   mean_reversion_strategy_, hist>>

(* for (const auto &bar : bars) over the stored bars *)
NextBarLoaded ==
    /\ pc = "loop"
    /\ bar_index < Len(get_bars(instance_.market_data_))
    /\ LET b == get_bars(instance_.market_data_)[bar_index + 1]
       IN  /\ bar' = b
           /\ hist' = HistNextBar(hist, b.timestamp)
    /\ bar_index' = bar_index + 1
    /\ pc' = "fill"
    /\ signal' = 0
    /\ UNCHANGED instance_
    /\ UNCHANGED <<execution_engine_, risk_manager_, regime_strategy_,
                   momentum_strategy_, mean_reversion_strategy_>>

FinishLoaded ==
    /\ pc = "loop"
    /\ bar_index = Len(get_bars(instance_.market_data_))
    /\ pc' = "done"
    /\ UNCHANGED instance_
    /\ UNCHANGED <<bar, bar_index, signal, execution_engine_, risk_manager_,
                   regime_strategy_, momentum_strategy_,
                   mean_reversion_strategy_, hist>>

NextLoad ==
    \/ ReadLine
    \/ LoadData
    \/ Run
    \/ NextBarLoaded
    \/ BarSteps
    \/ FinishLoaded

SpecLoad == InitLoad /\ [][NextLoad]_vars

(* the rows of the file that hold a usable bar *)
Usable(file) ==
    {k \in 1..Len(file) :
        /\ file[k].kind = "numbers"
        /\ is_valid(MakeBar(k * BarSeconds, file[k].row))}

(* C28: rows that are malformed or hold an impossible bar (is_valid()      *)
(* false) are skipped and never reach the simulation loop, and an input    *)
(* with no usable bar yields an empty simulation: run() processes no bar   *)
(* and leaves cash, position and ledger at their initial values.           *)
C28_OnlyValidBars ==
    /\ bar_index > 0 => is_valid(bar)
    /\ (pc \notin {"load_csv", "run"} /\ Usable(instance_.file) = {}) =>
           /\ bar_index = 0
           /\ Account(execution_engine_) =
                  Account(NewExecutionEngine(RInt(InitialCapital)))

----------------------------------------------------------------------------
(* the execution logic of this bar has run with signal 0 on an open        *)
(* position                                                                *)
ZeroSignalClose ==
    /\ pc \in {"cooldown", "loop"}
    /\ bar_index > 0
    /\ signal = 0
    /\ is_invested(execution_engine_)

(* the pending order closes the whole position *)
ClosePending ==
    /\ is_invested(execution_engine_)
    /\ PendingOrder(execution_engine_) =
           <<-execution_engine_.position_side_,
             RAbs(execution_engine_.position_)>>
    /\ execution_engine_.pending_order_side_ # 0

----------------------------------------------------------------------------
(* MomentumStrategy with the values its decision reads: the outputs of     *)
(* its indicators on a bar are inputs, the fill of the indicators, the     *)
(* gate and the decision are the code's                                    *)

MOMENTUM_ENTRY_THRESHOLD == Rat(3, 2)

ValueMomentumStrategy ==
    [current_signal_ |-> 0,
     last_zscore_ |-> Zero,
     roc_ |-> NewRateOfChange(MOMENTUM_PERIOD),
     roc_zscore_ |-> NewRollingStats(RANKING_PERIOD),
     ema_12_ |-> NewExponentialMovingAverage(12),
     ema_26_ |-> NewExponentialMovingAverage(26),
     vol_avg_ |-> NewSimpleMovingAverage(20),
     rsi_ |-> NewRSI(14)]

(* roc_zscore_.zscore(), around the thresholds 1.5 and 0.3 *)
ZValues ==
    {RInt(-3), RInt(-2), Rat(-3, 2), Zero, Rat(3, 10), RInt(1), Rat(3, 2),
     RInt(2), RInt(3)}

(* what the decision reads on a bar: z, ema_12_.value(), ema_26_.value(),  *)
(* bar.volume, vol_avg_.value() and rsi_.value()                           *)
MomentumInputs ==
    [z : ZValues, ema_12 : {1, 2}, ema_26 : {1, 2}, volume : {1, 2},
     vol_avg : {1}, rsi_val : {25, 50, 75}]

(* a z-score window that holds only the 0.0 of a roc_ that was not ready   *)
(* has std_dev_ = 0 and zscore_ = 0.0                                      *)
MomentumStrategy_inputs(s) ==
    {in \in MomentumInputs :
        s.roc_zscore_.buffer_.unready_ = size(s.roc_zscore_.buffer_)
            => in.z = Zero}

(* faulty variant: last_zscore_ is never updated *)
MomentumStrategy_decide_keep_last(s, in) ==
    LET z == in.z
        trend_up == in.ema_12 > in.ema_26
        trend_down == in.ema_12 < in.ema_26
        high_volume == in.volume > in.vol_avg
        rsi_not_extreme_high == in.rsi_val < 75
        rsi_not_extreme_low == in.rsi_val > 25
        momentum_accel == RGt(z, s.last_zscore_)
        momentum_decel == RLt(z, s.last_zscore_)
        long_entry == /\ RGt(z, MOMENTUM_ENTRY_THRESHOLD) /\ trend_up
                      /\ high_volume /\ rsi_not_extreme_high
                      /\ momentum_accel
        short_entry == /\ RLt(z, RNeg(MOMENTUM_ENTRY_THRESHOLD))
                       /\ trend_down /\ high_volume /\ rsi_not_extreme_low
                       /\ momentum_decel
        momentum_weak == RLt(RAbs(z), Rat(3, 10))
    IN  [s EXCEPT !.current_signal_ =
                      IF long_entry THEN 1
                      ELSE IF short_entry THEN -1
                      ELSE IF momentum_weak THEN 0
                      ELSE @]

(* 3. Logic, on a bar that passed the gate *)
MomentumStrategy_decide(s, in) ==
    LET z == in.z
        trend_up == in.ema_12 > in.ema_26
        trend_down == in.ema_12 < in.ema_26
        high_volume == in.volume > in.vol_avg
        rsi_not_extreme_high == in.rsi_val < 75
        rsi_not_extreme_low == in.rsi_val > 25
        momentum_accel == RGt(z, s.last_zscore_)
        momentum_decel == RLt(z, s.last_zscore_)
        long_entry == /\ RGt(z, MOMENTUM_ENTRY_THRESHOLD) /\ trend_up
                      /\ high_volume /\ rsi_not_extreme_high
                      /\ momentum_accel
        short_entry == /\ RLt(z, RNeg(MOMENTUM_ENTRY_THRESHOLD))
                       /\ trend_down /\ high_volume /\ rsi_not_extreme_low
                       /\ momentum_decel
        momentum_weak == RLt(RAbs(z), Rat(3, 10))
    IN  [s EXCEPT !.last_zscore_ = z,
                  !.current_signal_ =
                      IF long_entry THEN 1
                      ELSE IF short_entry THEN -1
                      ELSE IF momentum_weak THEN 0
                      ELSE @]

MomentumStrategy_on_bar_value(s, in) ==
    IF ~MomentumStrategy_ready(s) THEN s
    ELSE MomentumStrategy_decide(s, in)

InitMomentum ==
    /\ pc = "momentum_api"
    /\ bar = NoBar
    /\ bar_index = 0
    /\ signal = 0
    /\ execution_engine_ = NewExecutionEngine(RInt(InitialCapital))
    /\ risk_manager_ = NewRiskManager(EngineRiskConfig)
    /\ regime_strategy_ = NewRegimeStrategy
    /\ momentum_strategy_ = NewMomentumStrategy
    /\ mean_reversion_strategy_ = NewMeanReversionStrategy
    /\ hist = [ready |-> FALSE, input |-> <<>>, before |-> 0,
               ready_z |-> <<>>]
    /\ instance_ = ValueMomentumStrategy

(* on_bar(bar): the indicators are updated, then the gate and the logic *)
CallMomentumOnBar ==
    /\ pc = "momentum_api"
    /\ bar_index < MaxMomentumBars
    /\ LET s == MomentumStrategy_update(instance_)
       IN  \E in \in MomentumStrategy_inputs(s) :
               /\ instance_' = MomentumStrategy_on_bar_value(s, in)
               /\ hist' = [ready |-> MomentumStrategy_ready(s),
                           input |-> in,
                           before |-> instance_.current_signal_,
                           ready_z |-> IF MomentumStrategy_ready(s)
                                       THEN Append(hist.ready_z, in.z)
                                       ELSE hist.ready_z]
    /\ bar_index' = bar_index + 1
    /\ UNCHANGED <<pc, bar, signal, execution_engine_, risk_manager_,
                   regime_strategy_, momentum_strategy_,
                   mean_reversion_strategy_>>

NextMomentum == CallMomentumOnBar

SpecMomentum == InitMomentum /\ [][NextMomentum]_vars

(* the z of the ready bar before this one, 0 on the first ready bar *)
LastZ ==
    IF Len(hist.ready_z) <= 1 THEN Zero
    ELSE hist.ready_z[Len(hist.ready_z) - 1]

(* C30: on a bar where the momentum producer is ready its signal becomes   *)
(* +1 if the long entry condition holds, else -1 if the short entry        *)
(* condition holds, else 0 if |z| < 0.3, and otherwise keeps its previous  *)
(* value; the conditions compare z with the z of the previous ready bar    *)
(* (0 on the first); the signal is always -1, 0 or +1.                     *)
C30_MomentumSignal ==
    /\ instance_.current_signal_ \in {-1, 0, 1}
    /\ hist.ready =>
           LET in == hist.input
               long == /\ RLt(Rat(3, 2), in.z)
                       /\ in.ema_12 > in.ema_26
                       /\ in.volume > in.vol_avg
                       /\ in.rsi_val < 75
                       /\ RLt(LastZ, in.z)
               short == /\ RLt(in.z, Rat(-3, 2))
                        /\ in.ema_12 < in.ema_26
                        /\ in.volume > in.vol_avg
                        /\ in.rsi_val > 25
                        /\ RLt(in.z, LastZ)
               weak == RLt(Rat(-3, 10), in.z) /\ RLt(in.z, Rat(3, 10))
           IN  instance_.current_signal_ =
                   IF long THEN 1
                   ELSE IF short THEN -1
                   ELSE IF weak THEN 0
                   ELSE hist.before

(* a short signal is held on a bar whose z is above 1.5 with every filter  *)
(* of the long entry passing, because z is below the z of the ready bar    *)
(* before it                                                               *)
C30_Witness ==
    /\ hist.ready
    /\ Len(hist.ready_z) >= 3
    /\ hist.ready_z[Len(hist.ready_z) - 1] = RInt(3)
    /\ hist.input.z = RInt(2)
    /\ hist.input.ema_12 > hist.input.ema_26
    /\ hist.input.volume > hist.input.vol_avg
    /\ hist.input.rsi_val = 50
    /\ hist.before = -1
    /\ instance_.current_signal_ = -1

----------------------------------------------------------------------------
(* MeanReversionStrategy with the values its decision reads: the outputs   *)
(* of its indicators on a bar are inputs, the fill of the indicators, the  *)
(* gate, bb_pos and the decision are the code's                            *)

BB_STD_DEV == 2

(* what the decision reads on a bar: bar.close, bb_res.middle and          *)
(* bb_res.upper - bb_res.middle (0 or BB_STD_DEV), rsi_val, and the two    *)
(* std_dev() of the volatility windows                                     *)
MeanReversionInputs ==
    [close : {Rat(k, 5) : k \in {40, 42, 45, 49, 50, 51, 55, 58, 60}},
     middle : {RInt(10)},
     width : {Zero, RInt(BB_STD_DEV)},
     rsi_val : {20, 30, 50, 70, 80},
     vol_20 : {1, 2}, vol_60 : {1, 2}]

(* 2. Calculate Derived Values *)
bb_pos(in) ==
    LET std_dev == RDiv(in.width, RInt(BB_STD_DEV))
    IN  IF RGt(std_dev, Zero)
        THEN RDiv(RSub(in.close, in.middle), RMul(RInt(BB_STD_DEV), std_dev))
        ELSE Zero

(* faulty variant: the exits are evaluated ahead of the entries *)
MeanReversionStrategy_decide_exit_first(s, in) ==
    LET low_vol_regime == in.vol_20 < in.vol_60
        long_entry == /\ RLt(bb_pos(in), Rat(-8, 10))
                      /\ in.rsi_val < 30 /\ low_vol_regime
        short_entry == /\ RGt(bb_pos(in), Rat(8, 10))
                       /\ in.rsi_val > 70 /\ low_vol_regime
        exit_long == RGt(bb_pos(in), Rat(1, 10))
        exit_short == RLt(bb_pos(in), Rat(-1, 10))
    IN  [s EXCEPT !.current_signal_ =
            IF s.current_signal_ = 1 /\ exit_long THEN 0
            ELSE IF s.current_signal_ = -1 /\ exit_short THEN 0
            ELSE IF long_entry THEN 1
            ELSE IF short_entry THEN -1
            ELSE @]

(* 3. Logic, on a bar that passed the gate *)
MeanReversionStrategy_decide(s, in) ==
    LET low_vol_regime == in.vol_20 < in.vol_60
        long_entry == /\ RLt(bb_pos(in), Rat(-8, 10))
                      /\ in.rsi_val < 30 /\ low_vol_regime
        short_entry == /\ RGt(bb_pos(in), Rat(8, 10))
                       /\ in.rsi_val > 70 /\ low_vol_regime
        exit_long == RGt(bb_pos(in), Rat(1, 10))
        exit_short == RLt(bb_pos(in), Rat(-1, 10))
    IN  [s EXCEPT !.current_signal_ =
            IF long_entry THEN 1
            ELSE IF short_entry THEN -1
            ELSE IF s.current_signal_ = 1 /\ exit_long THEN 0
            ELSE IF s.current_signal_ = -1 /\ exit_short THEN 0
            ELSE @]

InitMeanReversion ==
    /\ pc = "mean_reversion_api"
    /\ bar = NoBar
    /\ bar_index = 0
    /\ signal = 0
    /\ execution_engine_ = NewExecutionEngine(RInt(InitialCapital))
    /\ risk_manager_ = NewRiskManager(EngineRiskConfig)
    /\ regime_strategy_ = NewRegimeStrategy
    /\ momentum_strategy_ = NewMomentumStrategy
    /\ mean_reversion_strategy_ = NewMeanReversionStrategy
    /\ hist = [ready |-> FALSE, input |-> <<>>, before |-> 0]
    /\ instance_ = WarmMeanReversionStrategy

(* on_bar(bar): the indicators are updated, then the gate and the logic;   *)
(* the bars have a positive close                                          *)
CallMeanReversionOnBar ==
    /\ pc = "mean_reversion_api"
    /\ bar_index < MaxMeanReversionBars
    /\ LET s == MeanReversionStrategy_update(instance_, [close |-> 1])
       IN  \E in \in MeanReversionInputs :
               /\ instance_' = IF ~MeanReversionStrategy_ready(s) THEN s
                               ELSE MeanReversionStrategy_decide(s, in)
               /\ hist' = [ready |-> MeanReversionStrategy_ready(s),
                           input |-> IF MeanReversionStrategy_ready(s)
                                     THEN in ELSE <<>>,
                           before |-> instance_.current_signal_]
    /\ bar_index' = bar_index + 1
    /\ UNCHANGED <<pc, bar, signal, execution_engine_, risk_manager_,
                   regime_strategy_, momentum_strategy_,
                   mean_reversion_strategy_>>

NextMeanReversion == CallMeanReversionOnBar

SpecMeanReversion == InitMeanReversion /\ [][NextMeanReversion]_vars

(* C31: on a bar where the mean-reversion producer is ready its signal     *)
(* becomes +1 on long_entry, else -1 on short_entry (also straight from    *)
(* the opposite signal), else 0 when it was +1 and bb_pos > 0.1 or was -1  *)
(* and bb_pos < -0.1, and is otherwise held; a signal of 0 changes only    *)
(* through an entry condition.                                             *)
C31_MeanReversionSignal ==
    hist.ready =>
        LET in == hist.input
            pos == bb_pos(in)
            long == /\ RLt(pos, Rat(-4, 5)) /\ in.rsi_val < 30
                    /\ in.vol_20 < in.vol_60
            short == /\ RLt(Rat(4, 5), pos) /\ in.rsi_val > 70
                     /\ in.vol_20 < in.vol_60
            now == instance_.current_signal_
        IN  /\ now = IF long THEN 1
                     ELSE IF short THEN -1
                     ELSE IF hist.before = 1 /\ RLt(Rat(1, 10), pos) THEN 0
                     ELSE IF hist.before = -1 /\ RLt(pos, Rat(-1, 10)) THEN 0
                     ELSE hist.before
            /\ (hist.before = 0 /\ now # 0) => (long \/ short)

(* a long signal flipped to short by a short entry on the next bar *)
C31_Witness ==
    /\ hist.ready
    /\ hist.before = 1
    /\ instance_.current_signal_ = -1
    /\ bb_pos(hist.input) = RInt(1)

----------------------------------------------------------------------------
(* RegimeStrategy with the values its decision reads: the outputs of its   *)
(* indicators on a bar are inputs, the fill of the indicators, the gate    *)
(* and the decision are the code's                                         *)

(* what the decision reads on a bar: vol_short_.std_dev(),                 *)
(* vol_long_.std_dev(), bar.close and sma_trend_.value()                   *)
RegimeInputs ==
    [vol_short : {1, 2}, vol_long : {1, 2},
     close : {990, 995, 1000, 1005, 1010}, sma_val : {1000}]

(* faulty variant: trending by >= *)
RegimeStrategy_decide_ge(s, in) ==
    LET low_vol == in.vol_short < in.vol_long
        trend_strength == RDiv(RAbs(RInt(in.close - in.sma_val)),
                               RInt(in.sma_val))
        trending == ~RLt(trend_strength, TREND_THRESHOLD)
    IN  [s EXCEPT !.current_regime_ =
            IF low_vol /\ trending THEN "LV_TREND"
            ELSE IF ~low_vol /\ trending THEN "HV_TREND"
            ELSE IF low_vol /\ ~trending THEN "LV_RANGE"
            ELSE "HV_RANGE"]

(* Logic Replicated from regimes.py, on a bar that passed the gate *)
RegimeStrategy_decide(s, in) ==
    LET low_vol == in.vol_short < in.vol_long
        trend_strength == RDiv(RAbs(RInt(in.close - in.sma_val)),
                               RInt(in.sma_val))
        trending == RGt(trend_strength, TREND_THRESHOLD)
    IN  [s EXCEPT !.current_regime_ =
            IF low_vol /\ trending THEN "LV_TREND"
            ELSE IF ~low_vol /\ trending THEN "HV_TREND"
            ELSE IF low_vol /\ ~trending THEN "LV_RANGE"
            ELSE "HV_RANGE"]

(* int signal() const *)
RegimeStrategy_signal(s) == 0

InitRegime ==
    /\ pc = "regime_api"
    /\ bar = NoBar
    /\ bar_index = 0
    /\ signal = 0
    /\ execution_engine_ = NewExecutionEngine(RInt(InitialCapital))
    /\ risk_manager_ = NewRiskManager(EngineRiskConfig)
    /\ regime_strategy_ = NewRegimeStrategy
    /\ momentum_strategy_ = NewMomentumStrategy
    /\ mean_reversion_strategy_ = NewMeanReversionStrategy
    /\ hist = [ready |-> FALSE, input |-> <<>>, before |-> "UNDEFINED"]
    /\ instance_ = WarmRegimeStrategy

(* on_bar(bar): the indicators are updated, then the gate and the logic *)
CallRegimeOnBar ==
    /\ pc = "regime_api"
    /\ bar_index < MaxRegimeBars
    /\ \E in \in RegimeInputs :
         LET s == RegimeStrategy_update(instance_, in)
         IN  /\ instance_' = IF ~RegimeStrategy_ready(s) THEN s
                             ELSE RegimeStrategy_decide(s, in)
             /\ hist' = [ready |-> RegimeStrategy_ready(s),
                         input |-> IF RegimeStrategy_ready(s)
                                   THEN in ELSE <<>>,
                         before |-> instance_.current_regime_]
    /\ bar_index' = bar_index + 1
    /\ UNCHANGED <<pc, bar, signal, execution_engine_, risk_manager_,
                   regime_strategy_, momentum_strategy_,
                   mean_reversion_strategy_>>

(* regime() and signal() are read in any state *)
CallRegimeSignal ==
    /\ pc = "regime_api"
    /\ signal' = RegimeStrategy_signal(instance_)
    /\ UNCHANGED <<pc, bar, bar_index, execution_engine_, risk_manager_,
                   regime_strategy_, momentum_strategy_,
                   mean_reversion_strategy_, hist, instance_>>

NextRegime ==
    \/ CallRegimeOnBar
    \/ CallRegimeSignal

SpecRegime == InitRegime /\ [][NextRegime]_vars

(* C32: once the regime detector is ready, the regime after a bar is given *)
(* by that bar's (low_vol, trending) alone, low_vol = stddev(short) <      *)
(* stddev(long) and trending = trend_strength > threshold, both strict:    *)
(* (T,T) LV_TREND, (F,T) HV_TREND, (T,F) LV_RANGE, (F,F) HV_RANGE; the     *)
(* detector's signal() is 0 in every state.                                *)
C32_RegimeTable ==
    /\ RegimeStrategy_signal(instance_) = 0
    /\ signal = 0
    /\ hist.ready =>
           LET in == hist.input
               low_vol == in.vol_short < in.vol_long
               \* |close - sma| / sma > 5/1000
               trending == 1000 * Abs(in.close - in.sma_val) > 5 * in.sma_val
               table == [lv \in BOOLEAN |-> [tr \in BOOLEAN |->
                            IF lv THEN (IF tr THEN "LV_TREND" ELSE "LV_RANGE")
                            ELSE (IF tr THEN "HV_TREND" ELSE "HV_RANGE")]]
           IN  instance_.current_regime_ = table[low_vol][trending]

(* from LV_TREND a bar with equal deviations and a trend strength of       *)
(* exactly the threshold gives HV_RANGE                                    *)
C32_Witness ==
    /\ hist.ready
    /\ hist.before = "LV_TREND"
    /\ hist.input.vol_short = hist.input.vol_long
    /\ hist.input.close = 1005
    /\ instance_.current_regime_ = "HV_RANGE"

----------------------------------------------------------------------------
(* A stand-alone RiskManager with can_enter among the calls, first used    *)
(* on the epoch day or on a later day; bar.timestamp is the time of the    *)
(* calls                                                                   *)

InitRiskDay ==
    /\ pc = "risk_api"
    /\ bar \in {MakeBar(ts, b) : ts \in {BarSeconds, SecondsPerDay},
                                 b \in {b \in FlatShapes : b.close = 1}}
    /\ bar_index = 0
    /\ signal = 0
    /\ execution_engine_ = NewExecutionEngine(RInt(InitialCapital))
    /\ risk_manager_ = NewRiskManager(EngineRiskConfig)
    /\ regime_strategy_ = NewRegimeStrategy
    /\ momentum_strategy_ = NewMomentumStrategy
    /\ mean_reversion_strategy_ = NewMeanReversionStrategy
    /\ hist = NewHist
    /\ instance_ = <<>>

(* can_enter(current_time), now or one bar later; its return value is in   *)
(* hist.decision                                                           *)
CallCanEnter ==
    /\ pc = "risk_api"
    /\ hist.calls < MaxCalls
    /\ \E current_time \in {bar.timestamp, bar.timestamp + BarSeconds} :
         /\ bar' = [bar EXCEPT !.timestamp = current_time]
         /\ risk_manager_' = can_enter_state(risk_manager_, current_time)
         /\ hist' = [hist EXCEPT
                        !.calls = @ + 1,
                        !.decision =
                            <<can_enter(risk_manager_, current_time)>>]
    /\ UNCHANGED instance_
    /\ UNCHANGED <<pc, bar_index, signal, execution_engine_,
                   regime_strategy_, momentum_strategy_,
                   mean_reversion_strategy_>>

NextRiskDay ==
    \/ CallOnEntry
    \/ CallCheckExit
    \/ CallOnExit
    \/ CallCanEnter

SpecRiskDay == InitRiskDay /\ [][NextRiskDay]_vars

(* C33: on_entry(price, atr, side) sets the stop to price - m*atr for a    *)
(* long and price + m*atr for a short, sets the favorable peak to price,   *)
(* increments trades_today by exactly one and leaves last_trade_day on the *)
(* calendar day of the entry, so that a later can_enter on that day does   *)
(* not reset trades_today.                                                 *)
C33_OnEntry ==
    [][CallOnEntry =>
          LET r == risk_manager_
              r2 == risk_manager_'
              distance == RMul(r2.config_.atr_stop_multiplier,
                               r2.atr_at_entry_)
          IN  /\ r2.stop_loss_ = IF r2.side_ = 1
                                 THEN RSub(r2.entry_price_, distance)
                                 ELSE RAdd(r2.entry_price_, distance)
              /\ r2.highest_price_ = r2.entry_price_
              /\ r2.lowest_price_ = r2.entry_price_
              /\ r2.trades_today_ = r.trades_today_ + 1
              /\ CalendarDay(r2.last_trade_day_) = CalendarDay(bar.timestamp)
              /\ ~is_new_day(r2, bar.timestamp)]_vars

----------------------------------------------------------------------------
(* The volatility windows of RegimeStrategy and MeanReversionStrategy on   *)
(* bars whose close may be zero or negative: how many samples they hold    *)

(* bar.close: negative, zero or positive *)
ReturnCloses == {-1, 0, 1}

InitReturns ==
    /\ pc = "returns_api"
    /\ bar = NoBar
    /\ bar_index = 0
    /\ signal = 0
    /\ execution_engine_ = NewExecutionEngine(RInt(InitialCapital))
    /\ risk_manager_ = NewRiskManager(EngineRiskConfig)
    /\ regime_strategy_ = NewRegimeStrategy
    /\ momentum_strategy_ = NewMomentumStrategy
    /\ mean_reversion_strategy_ = NewMeanReversionStrategy
    /\ hist = [closes |-> <<>>]
    /\ instance_ = [regime_strategy_ |-> WarmRegimeStrategy,
                    mean_reversion_strategy_ |-> WarmMeanReversionStrategy]

(* both strategies take the bar: the updates of on_bar (no gate passes     *)
(* within these few bars)                                                  *)
CallOnBarReturns ==
    /\ pc = "returns_api"
    /\ bar_index < MaxReturnBars
    /\ \E close \in ReturnCloses :
         LET b == [NoBar EXCEPT !.close = close]
         IN  /\ instance_' =
                    [regime_strategy_ |->
                         RegimeStrategy_update(instance_.regime_strategy_, b),
                     mean_reversion_strategy_ |->
                         MeanReversionStrategy_update(
                             instance_.mean_reversion_strategy_, b)]
             /\ hist' = [closes |-> Append(hist.closes, close)]
    /\ bar_index' = bar_index + 1
    /\ UNCHANGED <<pc, bar, signal, execution_engine_, risk_manager_,
                   regime_strategy_, momentum_strategy_,
                   mean_reversion_strategy_>>

NextReturns == CallOnBarReturns

SpecReturns == InitReturns /\ [][NextReturns]_vars

(* C34: in the regime detector and the mean-reversion producer the         *)
(* volatility windows receive exactly one sample per bar after the first,  *)
(* also when the previous close is zero or negative (the sample is then a  *)
(* log-return of 0).                                                       *)
C34_OneSamplePerBar ==
    bar_index >= 1 =>
        /\ size(instance_.regime_strategy_.vol_short_.buffer_)
               = bar_index - 1
        /\ size(instance_.regime_strategy_.vol_long_.buffer_)
               = bar_index - 1
        /\ size(instance_.mean_reversion_strategy_.vol_20_.buffer_)
               = bar_index - 1
        /\ size(instance_.mean_reversion_strategy_.vol_60_.buffer_)
               = bar_index - 1

----------------------------------------------------------------------------
(* C35: after the fill step of every bar of an engine run the side of the  *)
(* risk manager equals the position side of the execution engine: the      *)
(* risk state is armed exactly on the bars on which a position is open.    *)
C35_RiskSideIsPositionSide ==
    pc = "risk" =>
        /\ risk_manager_.side_ = execution_engine_.position_side_
        /\ (risk_manager_.side_ # 0) <=> is_invested(execution_engine_)

(* a short position was opened by the fill of this bar, and the stop check *)
(* that follows finds the risk manager short                               *)
C35_Witness ==
    /\ pc = "risk"
    /\ Filled
    /\ hist.fill.before = Zero
    /\ execution_engine_.position_side_ = -1
    /\ risk_manager_.side_ = -1

----------------------------------------------------------------------------
----------------------------------------------------------------------------
(* Engine::run called twice on one Engine with the same loaded data.       *)
(* instance_ holds the call of run() that is executing, the input the      *)
(* first call read (bar shapes and what the indicators of the freshly      *)
(* made strategies compute from them, the same in both calls) and the      *)
(* result of the first call.                                               *)

(* bars of the input: without a range, with ready strategies in a low      *)
(* volatility regime, the mean reversion signal staying 0                  *)
RerunInputs ==
    [shape : FlatShapes,
     regime : {o \in RegimeObservations : o.ready /\ o.low_vol},
     momentum : {o \in MomentumObservations :
                     o.ready /\ (o.long_entry \/ o.short_entry
                                 \/ o.momentum_weak)},
     mean_reversion : {o \in MeanReversionObservations :
                           ~o.ready /\ ~o.long_entry /\ ~o.short_entry
                           /\ ~o.exit_long /\ ~o.exit_short}]

InitRerun ==
    /\ pc = "loop"
    /\ bar = NoBar
    /\ bar_index = 0
    /\ signal = 0
    /\ execution_engine_ = NewExecutionEngine(RInt(InitialCapital))
    /\ risk_manager_ = NewRiskManager(EngineRiskConfig)
    /\ regime_strategy_ = NewRegimeStrategy
    /\ momentum_strategy_ = NewMomentumStrategy
    /\ mean_reversion_strategy_ = NewMeanReversionStrategy
    /\ hist = NewHist
    /\ instance_ = [run |-> 1, bars |-> <<>>, first |-> <<>>]

(* for (const auto &bar : bars): the first call reads the input, the       *)
(* second call reads the same input again                                  *)
NextBarRerun ==
    /\ pc = "loop"
    /\ LET ts == (bar_index + 1) * BarSeconds
       IN  /\ IF instance_.run = 1
              THEN /\ bar_index < MaxRerunBars
                   /\ \E in \in RerunInputs :
                        /\ bar' = MakeBar(ts, in.shape)
                        /\ instance_' =
                               [instance_ EXCEPT !.bars = Append(@, in)]
              ELSE /\ bar_index < Len(instance_.bars)
                   /\ bar' = MakeBar(ts, instance_.bars[bar_index + 1].shape)
                   /\ UNCHANGED instance_
           /\ hist' = HistNextBar(hist, ts)
    /\ bar_index' = bar_index + 1
    /\ pc' = "fill"
    /\ UNCHANGED <<signal, execution_engine_, risk_manager_,
                   regime_strategy_, momentum_strategy_,
                   mean_reversion_strategy_>>

(* 3. Update Strategies, on this bar of the input *)
UpdateStrategiesRerun ==
    /\ pc = "regime"
    /\ LET in == instance_.bars[bar_index]
       IN  /\ regime_strategy_' =
                  RegimeStrategy_on_bar(regime_strategy_, in.regime)
           /\ momentum_strategy_' =
                  MomentumStrategy_on_bar(momentum_strategy_, in.momentum)
           /\ mean_reversion_strategy_' =
                  MeanReversionStrategy_on_bar(mean_reversion_strategy_,
                                               in.mean_reversion)
    /\ pc' = "dispatch"
    /\ UNCHANGED instance_
    /\ UNCHANGED <<bar, bar_index, signal, execution_engine_, risk_manager_,
                   hist>>

(* the input is exhausted: Final Reporting *)
FinishRerun ==
    /\ pc = "loop"
    /\ bar_index >= 1
    /\ bar_index = Len(instance_.bars)
    /\ pc' = "done"
    /\ UNCHANGED instance_
    /\ UNCHANGED <<bar, bar_index, signal, execution_engine_, risk_manager_,
                   regime_strategy_, momentum_strategy_,
                   mean_reversion_strategy_, hist>>

(* run() is called again: Reset Components makes the three strategies      *)
(* anew; risk_manager_ and execution_engine_ are not assigned              *)
Rerun ==
    /\ pc = "done"
    /\ instance_.run = 1
    /\ instance_' =
           [instance_ EXCEPT
               !.run = 2,
               !.first = [trades |-> execution_engine_.trades_,
                          final_equity |->
                              get_equity(execution_engine_, RInt(bar.close))]]
    /\ regime_strategy_' = NewRegimeStrategy
    /\ momentum_strategy_' = NewMomentumStrategy
    /\ mean_reversion_strategy_' = NewMeanReversionStrategy
    /\ bar' = NoBar
    /\ bar_index' = 0
    /\ signal' = 0
    /\ pc' = "loop"
    /\ UNCHANGED <<execution_engine_, risk_manager_, hist>>

NextRerun ==
    \/ NextBarRerun
    \/ ProcessFills
    \/ RiskCheck
    \/ UpdateStrategiesRerun
    \/ GenerateSignal
    \/ ExecutionLogic
    \/ UpdateCooldown
    \/ FinishRerun
    \/ Rerun

SpecRerun == InitRerun /\ [][NextRerun]_vars

(* C37: a second call of run() on the same Engine with the same data       *)
(* starts from the initial state of the execution engine and of the risk   *)
(* manager, and ends with the ledger and the final equity of the first     *)
(* call.                                                                   *)
C37_RunStartsFromInitialState ==
    instance_.run = 2 =>
        /\ (pc = "loop" /\ bar_index = 0) =>
               /\ execution_engine_ = NewExecutionEngine(RInt(InitialCapital))
               /\ risk_manager_ = NewRiskManager(EngineRiskConfig)
        /\ pc = "done" =>
               /\ execution_engine_.trades_ = instance_.first.trades
               /\ get_equity(execution_engine_, RInt(bar.close)) =
                      instance_.first.final_equity

----------------------------------------------------------------------------
(* print_performance_report(bars.back().close): the two figures of the     *)
(* report that depend on what is open at the end                           *)
print_performance_report(e, current_price) ==
    [final_equity |-> get_equity(e, current_price),
     total_trades |-> Len(e.trades_)]

(* C38: at the end of a run an order submitted on the last bar is still    *)
(* pending, with cash, position and ledger as they were when it was        *)
(* submitted; leaving the loop fills and closes nothing; an open position  *)
(* has no ledger entry and counts in final equity at the last bar's close; *)
(* total_trades is the number of round trips closed by a fill of the       *)
(* input.                                                                  *)
C38_EndOfInput ==
    /\ [](pc = "done" =>
            LET report == print_performance_report(execution_engine_,
                                                   RInt(bar.close))
            IN  /\ hist.submits > 0 =>
                       /\ Pending
                       /\ hist.order_bar = bar_index
                       /\ Account(execution_engine_) = hist.snap
                /\ report.total_trades = Len(hist.entry_order_times)
                /\ \A i \in 1..Len(Ledger) :
                       Ledger[i].exit_time <= bar.timestamp
                /\ is_invested(execution_engine_) =>
                       /\ hist.open_fill # <<>>
                       /\ \A i \in 1..Len(Ledger) :
                              Ledger[i].entry_time < hist.open_fill[2]
                /\ report.final_equity =
                       RAdd(RAdd(RInt(InitialCapital), SumPnl(Ledger)),
                            Unrealized))
    /\ [][pc' = "done" => execution_engine_' = execution_engine_]_vars

(* a run has ended with one round trip in the ledger, a position open and  *)
(* the order that would close it submitted on the last bar, whose close    *)
(* is not the price the position was opened at                             *)
C38_Witness ==
    /\ pc = "done"
    /\ Len(Ledger) = 1
    /\ is_invested(execution_engine_)
    /\ Pending
    /\ hist.submits > 0
    /\ bar.close # hist.open_fill[3].n

----------------------------------------------------------------------------
(* C39: in every state of an engine run trades_today_ is between 0 and     *)
(* max_trades_per_day and cooldown_counter_ between 0 and cooldown_bars;   *)
(* update_cooldown, once per bar, takes one from a positive counter and    *)
(* leaves a counter of 0 at 0, and no other step counts it down.           *)
C39_CounterBounds ==
    /\ [](/\ 0 <= risk_manager_.trades_today_
          /\ risk_manager_.trades_today_ <= MaxTradesPerDay
          /\ 0 <= risk_manager_.cooldown_counter_
          /\ risk_manager_.cooldown_counter_ <=
                 risk_manager_.config_.cooldown_bars)
    /\ [][/\ pc = "cooldown" =>
                risk_manager_' =
                    [risk_manager_ EXCEPT !.cooldown_counter_ =
                                              IF @ > 0 THEN @ - 1 ELSE 0]
          /\ (/\ pc # "cooldown"
              /\ risk_manager_'.cooldown_counter_ #
                     risk_manager_.cooldown_counter_) =>
                risk_manager_'.cooldown_counter_ =
                    risk_manager_.config_.cooldown_bars]_vars

(* the daily limit is reached and update_cooldown has taken one from the   *)
(* full cooldown of a stop                                                 *)
C39_Witness ==
    /\ pc = "loop"
    /\ risk_manager_.trades_today_ = MaxTradesPerDay
    /\ risk_manager_.config_.cooldown_bars > 0
    /\ risk_manager_.cooldown_counter_ =
           risk_manager_.config_.cooldown_bars - 1

----------------------------------------------------------------------------
(* C40: a call of check_exit(bar) made while flat, or that returns true,   *)
(* leaves the whole RiskManager as it is; a call changes something only    *)
(* when it returns false on a bar with a new favorable extreme (a high     *)
(* above highest_price_ for a long, a low below lowest_price_ for a        *)
(* short), and then only that extreme and the stop.                        *)
C40_CheckExitFrame ==
    [][CallCheckExit =>
          LET r == risk_manager_
              r2 == risk_manager_'
              returned == hist'.stopped
          IN  /\ (r.side_ = 0 \/ returned) => r2 = r
              /\ r.side_ = 0 => ~returned
              /\ r2 # r =>
                    /\ ~returned
                    /\ \/ /\ r.side_ = 1
                          /\ RGt(RInt(bar'.high), r.highest_price_)
                          /\ r2 = [r EXCEPT
                                      !.highest_price_ = r2.highest_price_,
                                      !.stop_loss_ = r2.stop_loss_]
                       \/ /\ r.side_ = -1
                          /\ RLt(RInt(bar'.low), r.lowest_price_)
                          /\ r2 = [r EXCEPT
                                      !.lowest_price_ = r2.lowest_price_,
                                      !.stop_loss_ = r2.stop_loss_]]_vars

(* check_exit has returned false on a bar whose high is above the entry of *)
(* a long position: the peak is that high and the stop is above the stop   *)
(* that on_entry set                                                       *)
C40_Witness ==
    /\ pc = "risk_api"
    /\ bar_index >= 1
    /\ ~hist.stopped
    /\ risk_manager_.side_ = 1
    /\ risk_manager_.highest_price_ = RInt(bar.high)
    /\ RGt(risk_manager_.highest_price_, risk_manager_.entry_price_)
    /\ RGt(risk_manager_.stop_loss_,
           RSub(risk_manager_.entry_price_, StopDistance(risk_manager_)))

====
